---- MODULE Spec2Model ----
(***************************************************************************)
(* Model of the caryvn-backend wallet ledger, the Squad deposit protocol   *)
(* (initiate / verify / webhook) and order placement.                      *)
(*                                                                         *)
(* Each HTTP request is handled by a worker; workers interleave at every   *)
(* database statement and at every external call.  The database is a      *)
(* row-locking store in READ COMMITTED mode with Django's autocommit: a    *)
(* statement outside transaction.atomic commits at once, the writes of an  *)
(* atomic block become visible at its commit, SELECT ... FOR UPDATE and    *)
(* UPDATE take the row's exclusive lock and keep it until the enclosing    *)
(* transaction ends, a plain SELECT never blocks and sees committed data.  *)
(* Money is in whole naira.                                                *)
(***************************************************************************)
EXTENDS Integers, Sequences, FiniteSets, TLC

\* ------------------------------------------------------------- bounds
Workers == {"w1", "w2"}
NoOne == "nobody"
\* the workers of the specification of the order statuses, by what they serve
Customers == {"w1"}
Staff == {"w2"}
\* top-ups that may be initiated in one behaviour
MaxDeposits == 1
\* orders that may be placed in one behaviour
MaxOrders == 2
\* balance of the wallet when the behaviour starts
InitBalance == 300
\* refunds that may be recorded in one behaviour
MaxRefunds == 2
\* reconciliation batches that may run at the same time
MaxSyncs == 1
\* rows of the MarkupRule table
MaxRules == 3
\* percentages, fixed additions (ten-thousandths) and priorities of the rules
Percentages == {0, 10, 20}
FixedAdditions == {0, 20000}
Priorities == {1, 2}
\* provider rates (ten-thousandths) the resolver is called with: 10.0000, 0.0015
ProviderRates == {100000, 15}
\* rates (ten-thousandths) and quantities the profit is calculated for
ProfitRates == {15, 16, 50000, 60005, 100000, 120000}
ProfitQuantities == {1, 5, 10, 50, 500, 1000}
\* entries of an upstream catalog batch, and the rate they carry (10.0000)
MaxBatch == 2
SyncRate == 100000
\* ledger operations that may be invoked directly in one behaviour
MaxLedgerOps == 2
\* amounts the ledger operations are invoked with
LedgerAmounts == {100, 200}
\* amounts a client may ask to top up
TopupInputs == {50, 100}
\* quantities a client may order
Quantities == {1, 2, 6}
\* difference between the amount the gateway reports and the amount initiated
GatewayDeltas == {0, 1, 2}
\* amounts, in kobo, a webhook body may report: the 100 naira initiated, or not
WebhookAmounts == {10000, 999}
\* the users: the one whose wallet, top-ups and orders are followed, and another
TxOwner == "owner"
Users == {TxOwner, "other"}
\* the other user's balance
OtherBalance == 300

\* ---------------------------------------------------- program constants
MIN_TOPUP_AMOUNT == 100
MAX_TOPUP_AMOUNT == 500000
max_retries == 3
\* Decimal('1'): the verify-time amount tolerance
AmountTolerance == 1

PENDING == "pending"
SUCCESS == "success"
FAILED == "failed"

\* the one Service of the catalog the orders are placed against
TheService ==
  [provider_id |-> 1, user_rate |-> 100000, provider_rate |-> 50000,
   min_quantity |-> 1, max_quantity |-> 5]

\* ------------------------------------------------------------- ledger
\* Service.calculate_price: (user_rate / 1000) * quantity
calculate_price(service, quantity) == (service.user_rate \div 1000) * quantity

\* OrderCreateSerializer.validate: quantity within the service's limits
QuantityValid(service, quantity) ==
  /\ quantity >= 1
  /\ quantity >= service.min_quantity
  /\ quantity <= service.max_quantity

\* Wallet.create_pending_deposit: the row it inserts
PendingDepositTx(bal, amount, ref) ==
  [type |-> "deposit", amount |-> amount, balance_after |-> bal,
   status |-> PENDING, ref |-> ref, order |-> 0]

\* Wallet.confirm_deposit, line 115: the status re-check under the lock
AlreadyProcessed_NoRecheck(tx) == FALSE
AlreadyProcessed(tx) == tx.status # PENDING

\* Wallet.confirm_deposit, lines 118-123: the credited transaction row
ConfirmedTx(tx, newBal) ==
  [tx EXCEPT !.status = SUCCESS, !.balance_after = newBal]

\* Wallet.fail_deposit, line 131: the guard on the caller's copy of the row
FailSkips(status) == status # PENDING

\* Wallet.charge, line 154
ChargeRejects_OffByOne(bal, amount) == bal <= amount
ChargeRejects(bal, amount) == bal < amount

\* Wallet.charge, line 156
ChargeBalance(bal, amount) == bal - amount

\* Wallet.charge, lines 158-165
ChargeTx(newBal, amount, oid) ==
  [type |-> "charge", amount |-> 0 - amount, balance_after |-> newBal,
   status |-> SUCCESS, ref |-> 0, order |-> oid]

\* Wallet.refund, lines 171-180
RefundBalance(bal, amount) == bal + amount
RefundTx(newBal, amount, oid) ==
  [type |-> "refund", amount |-> amount, balance_after |-> newBal,
   status |-> SUCCESS, ref |-> 0, order |-> oid]

\* Wallet.deposit, lines 139-148
DepositBalance(bal, amount) == bal + amount
DepositTx(newBal, amount) ==
  [type |-> "deposit", amount |-> amount, balance_after |-> newBal,
   status |-> SUCCESS, ref |-> 0, order |-> 0]

RECURSIVE SumSuccess(_)
\* sum(t.amount for t in transactions if t.status == SUCCESS)
SumSuccess(s) ==
  IF s = <<>> THEN 0
  ELSE (IF Head(s).status = SUCCESS THEN Head(s).amount ELSE 0) + SumSuccess(Tail(s))

\* ------------------------------------------------------------- state
VARIABLES
  balance,     \* Wallet.balance, committed
  txs,         \* committed Transaction rows, in insertion order
  orders,      \* committed Order rows, by order id
  walletLock,  \* holder of the wallet row's exclusive lock
  txLock,      \* holder of the exclusive lock of each top-up's row, by reference
  gw,          \* the gateway's view of each reference: none / open / paid
  provCalls,   \* order ids CreateOrder was sent to the provider for
  nextRef,     \* references generated so far
  nextOid,     \* order ids generated so far
  credited,    \* history: times confirm_deposit credited each reference
  cache,       \* the cached service catalog: none / catalog / empty
  rules,       \* the MarkupRule table
  quote,       \* the last pricing call: its arguments and what it returned
  catalog,     \* the Service table, by provider_id
  sync,        \* the running catalog sync: its batch and position
  profit,      \* the last profit calculation: its arguments and result
  others,      \* Wallet.balance of another user's wallet, committed
  pc,          \* each worker's position in its handler
  loc          \* each worker's request, local objects and response

vars ==
  <<balance, txs, orders, walletLock, txLock, gw, provCalls, nextRef, nextOid,
    credited, cache, rules, quote, catalog, sync, profit, others, pc, loc>>

Refs == 1..MaxDeposits

IdleLoc ==
  [kind |-> "none", ref |-> 0, sig |-> "none", txStatus |-> "none", txAmount |-> 0,
   bal |-> 0, before |-> 0, row |-> 0, amount |-> 0, oid |-> 0, ostatus |-> "none",
   buf |-> <<>>, seen |-> "none", result |-> "none", ord |-> "none",
   sel |-> <<>>, outs |-> <<>>, errors |-> 0, updated |-> 0, log |-> <<>>,
   wallet |-> TxOwner]

\* the row of the top-up with payment reference r (payment_reference is unique)
TxIndex(r) == CHOOSE i \in 1..Len(txs) : txs[i].ref = r
TxOf(r) == txs[TxIndex(r)]
TxExists(r) == \E i \in 1..Len(txs) : txs[i].ref = r

NoBalance == 0 - 1

\* the primary keys (and provider ids) of the Service rows
Services == {1, 2}

\* no pricing call was made yet
NoQuote == [called |-> FALSE]

\* no profit was calculated yet
NoProfit == [called |-> FALSE]

\* no Service row with this provider_id
NoRow == [exists |-> FALSE]

\* no catalog sync is running
NoSync == [pc |-> "idle"]

InitState ==
  /\ balance = InitBalance
  /\ txs = << DepositTx(InitBalance, InitBalance) >>
  /\ orders = <<>>
  /\ walletLock = NoOne
  /\ txLock = [r \in Refs |-> NoOne]
  /\ gw = [r \in Refs |-> "none"]
  /\ provCalls = {}
  /\ nextRef = 1
  /\ nextOid = 1
  /\ credited = [r \in Refs |-> 0]
  /\ cache = "none"
  /\ quote = NoQuote
  /\ sync = NoSync
  /\ profit = NoProfit
  /\ others = OtherBalance
  /\ pc = [p \in Workers |-> "idle"]
  /\ loc = [p \in Workers |-> IdleLoc]

\* no markup rule is configured
Init ==
  /\ InitState
  /\ rules = {}
  /\ catalog = [id \in Services |-> NoRow]

\* a handler returns: the worker holds the response (its code in result, the
\* balance it reports in bal) of the request l
Finish(p, l, code, bal) ==
  /\ pc' = [pc EXCEPT ![p] = "done"]
  /\ loc' = [loc EXCEPT ![p] =
               [IdleLoc EXCEPT !.kind = l.kind, !.ref = l.ref, !.sig = l.sig,
                               !.amount = l.amount, !.result = code,
                               !.bal = bal, !.errors = l.errors,
                               !.updated = l.updated, !.wallet = l.wallet]]

Goto(p, label, newLoc) ==
  /\ pc' = [pc EXCEPT ![p] = label]
  /\ loc' = [loc EXCEPT ![p] = newLoc]

Request(kind) == [IdleLoc EXCEPT !.kind = kind]

\* the response is sent and the worker takes the next request
Return(p) ==
  /\ pc[p] = "done"
  /\ pc' = [pc EXCEPT ![p] = "idle"]
  /\ loc' = [loc EXCEPT ![p] = IdleLoc]
  /\ UNCHANGED <<balance, txs, orders, walletLock, txLock, gw, provCalls, nextRef,
                 nextOid, credited, cache, rules, quote, catalog, sync, profit, others>>

\* ------------------------------------------------- payment gateway (Squad)
\* the customer pays on the gateway's checkout page
GW_Pay(r) ==
  /\ gw[r] = "open"
  /\ gw' = [gw EXCEPT ![r] = "paid"]
  /\ UNCHANGED <<balance, txs, orders, walletLock, txLock, provCalls, nextRef,
                 nextOid, credited, pc, loc, cache, rules, quote, catalog, sync, profit, others>>

\* ------------------------------------------------------ InitiateTopupView
\* post, lines 26-71: validate the amount, generate the reference, insert the
\* pending transaction
IN_Start(p) ==
  /\ pc[p] = "idle"
  /\ nextRef <= MaxDeposits
  /\ \E amount \in TopupInputs :
       IF amount < MIN_TOPUP_AMOUNT \/ amount > MAX_TOPUP_AMOUNT
       THEN /\ Finish(p, [Request("initiate") EXCEPT !.amount = amount], "400", NoBalance)
            /\ UNCHANGED <<txs, nextRef>>
       ELSE /\ txs' = Append(txs, PendingDepositTx(balance, amount, nextRef))
            /\ nextRef' = nextRef + 1
            /\ Goto(p, "in_gateway",
                    [Request("initiate") EXCEPT !.ref = nextRef, !.amount = amount,
                                    !.txStatus = PENDING, !.txAmount = amount])
  /\ UNCHANGED <<balance, orders, walletLock, txLock, gw, provCalls, nextOid,
                 credited, cache, rules, quote, catalog, sync, profit, others>>

\* (a rejection answered without wallet.fail_deposit)
IN_Gateway_NoFail(p) ==
  /\ pc[p] = "in_gateway"
  /\ \/ /\ gw' = [gw EXCEPT ![loc[p].ref] = "open"]
        /\ Finish(p, loc[p], "checkout", NoBalance)
     \/ /\ gw' = gw
        /\ Finish(p, loc[p], "502", NoBalance)
  /\ UNCHANGED <<balance, txs, orders, walletLock, txLock, provCalls, nextRef,
                 nextOid, credited, cache, rules, quote, catalog, sync, profit, others>>

\* post, lines 73-96: the gateway accepts (checkout opens) or rejects the payment
IN_Gateway(p) ==
  /\ pc[p] = "in_gateway"
  /\ \/ /\ gw' = [gw EXCEPT ![loc[p].ref] = "open"]
        /\ Finish(p, loc[p], "checkout", NoBalance)
     \/ /\ gw' = gw
        /\ Goto(p, "fail_deposit", [loc[p] EXCEPT !.result = "502"])
  /\ UNCHANGED <<balance, txs, orders, walletLock, txLock, provCalls, nextRef,
                 nextOid, credited, cache, rules, quote, catalog, sync, profit, others>>

\* ------------------------------------------------------- Wallet.fail_deposit
\* The guard reads the caller's copy of the row; the save is an UPDATE of the
\* status column alone, which waits for the row's lock.
FailDeposit(p) ==
  /\ pc[p] = "fail_deposit"
  /\ IF FailSkips(loc[p].txStatus)
     THEN txs' = txs
     ELSE /\ txLock[loc[p].ref] = NoOne
          /\ txs' = [txs EXCEPT ![TxIndex(loc[p].ref)].status = FAILED]
  /\ Finish(p, loc[p], loc[p].result, NoBalance)
  /\ UNCHANGED <<balance, orders, walletLock, txLock, gw, provCalls, nextRef,
                 nextOid, credited, cache, rules, quote, catalog, sync, profit, others>>

\* ---------------------------------------------------- Wallet.confirm_deposit
\* the committed balance of a user's wallet
BalanceOf(user) == IF user = TxOwner THEN balance ELSE others

\* line 111 reading the wallet row without select_for_update
CD_LockWallet_Unlocked(p) ==
  /\ pc[p] = "cd_lock_wallet"
  /\ walletLock' = walletLock
  /\ Goto(p, "cd_lock_tx", [loc[p] EXCEPT !.bal = BalanceOf(loc[p].wallet)])
  /\ UNCHANGED <<balance, txs, orders, txLock, gw, provCalls, nextRef, nextOid,
                 credited, cache, rules, quote, catalog, sync, profit, others>>

\* line 111: Wallet.objects.select_for_update().get(pk=self.pk); walletLock is the
\* lock of the followed wallet's row, the other wallet's row is not contended for
CD_LockWallet(p) ==
  /\ pc[p] = "cd_lock_wallet"
  /\ loc[p].wallet = TxOwner => walletLock = NoOne
  /\ walletLock' = IF loc[p].wallet = TxOwner THEN p ELSE walletLock
  /\ Goto(p, "cd_lock_tx", [loc[p] EXCEPT !.bal = BalanceOf(loc[p].wallet)])
  /\ UNCHANGED <<balance, txs, orders, txLock, gw, provCalls, nextRef, nextOid,
                 credited, cache, rules, quote, catalog, sync, profit, others>>

\* line 114 locking the row but going on with the caller's copy of it
CD_LockTx_CallerCopy(p) ==
  /\ pc[p] = "cd_lock_tx"
  /\ txLock[loc[p].ref] = NoOne
  /\ txLock' = [txLock EXCEPT ![loc[p].ref] = p]
  /\ Goto(p, "cd_apply", loc[p])
  /\ UNCHANGED <<balance, txs, orders, walletLock, gw, provCalls, nextRef, nextOid,
                 credited, cache, rules, quote, catalog, sync, profit, others>>

\* line 114: Transaction.objects.select_for_update().get(pk=transaction.pk)
CD_LockTx(p) ==
  /\ pc[p] = "cd_lock_tx"
  /\ txLock[loc[p].ref] = NoOne
  /\ txLock' = [txLock EXCEPT ![loc[p].ref] = p]
  /\ Goto(p, "cd_apply", [loc[p] EXCEPT !.txStatus = TxOf(loc[p].ref).status,
                                         !.txAmount = TxOf(loc[p].ref).amount])
  /\ UNCHANGED <<balance, txs, orders, walletLock, gw, provCalls, nextRef, nextOid,
                 credited, cache, rules, quote, catalog, sync, profit, others>>

\* lines 115-127: skip when already processed, else credit the wallet, settle
\* the transaction and commit; either way the atomic block ends and both locks
\* are released
CD_Apply(p) ==
  /\ pc[p] = "cd_apply"
  /\ LET r == loc[p].ref
         tx == [TxOf(r) EXCEPT !.status = loc[p].txStatus, !.amount = loc[p].txAmount]
         newBal == loc[p].bal + tx.amount
     IN IF AlreadyProcessed(tx)
        THEN /\ UNCHANGED <<balance, others, txs, credited>>
             /\ Finish(p, loc[p], loc[p].result, loc[p].bal)
        ELSE /\ balance' = IF loc[p].wallet = TxOwner THEN newBal ELSE balance
             /\ others' = IF loc[p].wallet = TxOwner THEN others ELSE newBal
             /\ txs' = [txs EXCEPT ![TxIndex(r)] = ConfirmedTx(tx, newBal)]
             /\ credited' = [credited EXCEPT ![r] = @ + 1]
             /\ Finish(p, loc[p], loc[p].result, newBal)
  /\ walletLock' = IF walletLock = p THEN NoOne ELSE walletLock
  /\ txLock' = [txLock EXCEPT ![loc[p].ref] = NoOne]
  /\ UNCHANGED <<orders, gw, provCalls, nextRef, nextOid, cache, rules, quote, catalog,
                 sync, profit>>

\* -------------------------------------------------------- VerifyTopupView
\* (only a SUCCESS transaction reported as is)
VF_Start_FailedGoesOn(p) ==
  /\ pc[p] = "idle"
  /\ \E r \in Refs :
       /\ gw[r] # "none"
       /\ TxExists(r)
       /\ IF TxOf(r).status = SUCCESS
          THEN Finish(p, [Request("verify") EXCEPT !.ref = r], "already_success",
                      NoBalance)
          ELSE Goto(p, "vf_gateway",
                    [Request("verify") EXCEPT !.ref = r,
                                    !.txStatus = TxOf(r).status,
                                    !.txAmount = TxOf(r).amount])
  /\ UNCHANGED <<balance, txs, orders, walletLock, txLock, gw, provCalls, nextRef,
                 nextOid, credited, cache, rules, quote, catalog, sync, profit, others>>

\* (a lookup by payment_reference alone)
FoundFor_AnyUser(r, user) == TxExists(r)

\* lines 113-116: Transaction.objects.get(payment_reference=reference,
\* wallet__user=request.user); every top-up of the model is the followed user's
FoundFor(r, user) == TxExists(r) /\ user = TxOwner

\* get, lines 103-137: look the transaction up among the requesting user's; a
\* settled one is reported as is; wallet is request.user.wallet
VF_Start(p) ==
  /\ pc[p] = "idle"
  /\ \E r \in Refs, user \in Users :
       /\ gw[r] # "none"
       /\ TxExists(r)
       /\ LET req == [Request("verify") EXCEPT !.ref = r, !.wallet = user]
          IN IF ~FoundFor(r, user)
             THEN Finish(p, req, "404", NoBalance)
             ELSE IF TxOf(r).status = SUCCESS
             THEN Finish(p, req, "already_success", NoBalance)
             ELSE IF TxOf(r).status = FAILED
             THEN Finish(p, req, "already_failed", NoBalance)
             ELSE Goto(p, "vf_gateway",
                       [req EXCEPT !.txStatus = TxOf(r).status,
                                   !.txAmount = TxOf(r).amount])
  /\ UNCHANGED <<balance, txs, orders, walletLock, txLock, gw, provCalls, nextRef,
                 nextOid, credited, cache, rules, quote, catalog, sync, profit, others>>

\* (a tolerance one naira wider)
AmountMismatch_Loose(expected, actual) ==
  (IF expected >= actual THEN expected - actual ELSE actual - expected)
    > AmountTolerance + 1

\* get, line 148: abs(expected_amount - actual_amount) > Decimal('1')
AmountMismatch(expected, actual) ==
  (IF expected >= actual THEN expected - actual ELSE actual - expected)
    > AmountTolerance

\* (SquadPaymentError handled as a payment that was not successful)
VF_Gateway_FailsOnError(p) ==
  /\ pc[p] = "vf_gateway"
  /\ \/ Goto(p, "fail_deposit", [loc[p] EXCEPT !.result = "502"])
     \/ /\ gw[loc[p].ref] = "paid"
        /\ Goto(p, "cd_lock_wallet", [loc[p] EXCEPT !.amount = loc[p].txAmount,
                                                    !.result = "confirmed"])
  /\ UNCHANGED <<balance, txs, orders, walletLock, txLock, gw, provCalls, nextRef,
                 nextOid, credited, cache, rules, quote, catalog, sync, profit, others>>

\* get, lines 139-190: ask the gateway; confirm on success, fail the deposit on a
\* payment that is not successful, report a gateway error and leave it pending
VF_Gateway(p) ==
  /\ pc[p] = "vf_gateway"
  /\ \/ Finish(p, loc[p], "502", NoBalance)
     \/ /\ gw[loc[p].ref] = "paid"
        /\ \E d \in GatewayDeltas :
             LET actual_amount == loc[p].txAmount + d
                 l == [loc[p] EXCEPT !.amount = actual_amount]
             IN IF AmountMismatch(loc[p].txAmount, actual_amount)
                THEN Finish(p, l, "mismatch", NoBalance)
                ELSE Goto(p, "cd_lock_wallet", [l EXCEPT !.result = "confirmed"])
     \/ /\ gw[loc[p].ref] = "open"
        /\ Goto(p, "fail_deposit", [loc[p] EXCEPT !.result = "failed"])
  /\ UNCHANGED <<balance, txs, orders, walletLock, txLock, gw, provCalls, nextRef,
                 nextOid, credited, cache, rules, quote, catalog, sync, profit, others>>

\* -------------------------------------------------------- SquadWebhookView
\* django_settings.SQUAD_SECRET_KEY is set in a deployment that takes payments
SecretKeySet == TRUE

\* post, lines 208-217: the signature is checked only when one was sent
SignatureRejected(sig) == SecretKeySet /\ sig # "none" /\ sig # "valid"

\* A delivery signed by the gateway reports a payment as successful only once it
\* is paid; a request the gateway did not sign may claim anything about any
\* reference its sender knows.
WebhookPossible(sig, event, r) ==
  IF sig = "valid"
  THEN r \in Refs /\ gw[r] # "none" /\ (event = "charge_successful" => gw[r] = "paid")
  ELSE r = 0 \/ (r \in Refs /\ gw[r] # "none")

\* post, lines 199-275
WH_Start(p) ==
  /\ pc[p] = "idle"
  /\ \E sig \in {"none", "invalid", "valid"}, event \in {"charge_successful", "other"},
        r \in Refs \cup {0}, amount_kobo \in WebhookAmounts :
       /\ WebhookPossible(sig, event, r)
       /\ LET req == [Request("webhook") EXCEPT !.ref = r, !.sig = sig]
              \* lines 238-242: the amount of the body is read, and never used
              paid == [req EXCEPT !.amount = amount_kobo]
          IN IF SignatureRejected(sig)
             THEN Finish(p, req, "401", NoBalance)
             ELSE IF event # "charge_successful"
             THEN Finish(p, req, "ok", NoBalance)
             ELSE IF r = 0 \/ ~TxExists(r)
             THEN Finish(p, paid, "ok", NoBalance)
             ELSE IF TxOf(r).status = PENDING
             THEN Goto(p, "cd_lock_wallet",
                       [paid EXCEPT !.txStatus = TxOf(r).status,
                                    !.txAmount = TxOf(r).amount, !.result = "ok",
                                    !.wallet = TxOwner])
             ELSE Finish(p, paid, "ok", NoBalance)
  /\ UNCHANGED <<balance, txs, orders, walletLock, txLock, gw, provCalls, nextRef,
                 nextOid, credited, cache, rules, quote, catalog, sync, profit, others>>

\* ------------------------------------------------- Provider Gateway (SMM)
\* What one attempt of requests.post can produce: a transport failure, or an HTTP
\* response whose JSON is {'order': id}, {'error': 'message'}, {'error': ''}, or
\* carries neither key.
TransportFailures == {"timeout", "connection"}
HttpResponses == {"order", "error", "error_empty", "other"}
AttemptOutcomes == TransportFailures \cup HttpResponses

\* 'error' in response_data / 'order' in result
HasErrorKey(body) == body \in {"error", "error_empty"}
HasOrderKey(body) == body = "order"
\* response_data['error']
ErrorText(body) == IF body = "error" THEN "message" ELSE ""

RECURSIVE RetryLoop(_, _, _)
\* SMMProvider._make_request, lines 68-104: the retry loop.  error_msg is set by a
\* failed attempt and by an 'error' key, and is never cleared
RetryLoop(att, i, error_msg) ==
  IF i > max_retries
  THEN [body |-> "none", error_msg |-> error_msg, attempts |-> max_retries]
  ELSE IF att[i] \in TransportFailures
  THEN RetryLoop(att, i + 1, att[i])
  ELSE [body |-> att[i],
        error_msg |-> IF HasErrorKey(att[i]) THEN ErrorText(att[i]) ELSE error_msg,
        attempts |-> i]

\* SMMProvider._make_request, line 124: the condition of the raise
Raises(error_msg, body) == error_msg # "" /\ ~HasErrorKey(body)

\* SMMProvider._make_request, lines 124-127: raise, or return the response
MakeRequest(att) ==
  LET r == RetryLoop(att, 1, "")
  IN [raised |-> Raises(r.error_msg, r.body),
      body |-> r.body, error_msg |-> r.error_msg, attempts |-> r.attempts]

\* The attempts one call can make: each one before the last is a transport
\* failure, and the last is an HTTP response or the failure of the final retry
Attempts ==
  { att \in UNION { [1..n -> AttemptOutcomes] : n \in 1..max_retries } :
      /\ \A i \in 1..(Len(att) - 1) : att[i] \in TransportFailures
      /\ att[Len(att)] \in TransportFailures => Len(att) = max_retries }

\* att, continued by failures up to max_retries attempts
Padded(att) == [i \in 1..max_retries |-> IF i <= Len(att) THEN att[i] ELSE "timeout"]

\* what happened at the provider: whether an attempt failed in transport, and
\* the body of the response received, if any
ProviderSaw(att) ==
  [retried |-> att[1] \in TransportFailures,
   body |-> IF att[Len(att)] \in HttpResponses THEN att[Len(att)] ELSE "none"]

\* OrderCreateView.post, lines 284-302: what the view makes of the call
\*   "placed": 'order' in result;  "provider_error": provider_error is truthy;
\*   "nothing": neither
ProviderOutcome(att) ==
  LET r == MakeRequest(att)
      provider_error == IF r.raised THEN r.error_msg
                        ELSE IF HasOrderKey(r.body) THEN ""
                        ELSE IF HasErrorKey(r.body) THEN ErrorText(r.body)
                        ELSE ""
  IN IF ~r.raised /\ HasOrderKey(r.body) THEN "placed"
     ELSE IF provider_error # "" THEN "provider_error"
     ELSE "nothing"

\* ------------------------------------------- SMMProvider._make_request, by steps
\* the provider's API key (settings.SMM_API_KEY) and the actions of the API
ApiKey == "api-key"
ApiActions == {"add", "status"}

\* _make_request, lines 58-62: the form data that is posted
RequestData(action) == [key |-> ApiKey, action |-> action]

\* _make_request, lines 65-66: the copy of the request that is logged
LoggedRequest(request_data) ==
  [k \in DOMAIN request_data |->
     IF k = "key" THEN "***HIDDEN***" ELSE request_data[k]]

\* _make_request, lines 57-70: a call begins; nothing received, no error yet
RQ_Start(p) ==
  /\ pc[p] = "idle"
  /\ \E action \in ApiActions :
       Goto(p, "rq_attempt",
            [Request("request") EXCEPT
               !.seen = <<>>,
               !.buf = RequestData(action),
               !.result = [body |-> "none", error_msg |-> ""]])
  /\ UNCHANGED <<balance, txs, orders, walletLock, txLock, gw, provCalls, nextRef,
                 nextOid, credited, cache, rules, quote, catalog, sync, profit, others>>

\* (the loop retrying after a response that carries an 'error' key as well)
RQ_Attempt_RetriesErrors(p) ==
  /\ pc[p] = "rq_attempt"
  /\ \E o \in AttemptOutcomes :
       LET l == loc[p]
           seen == Append(l.seen, o)
           again == (o \in TransportFailures \/ HasErrorKey(o)) /\ Len(seen) < max_retries
       IN Goto(p, IF again THEN "rq_attempt" ELSE "rq_log",
               [l EXCEPT !.seen = seen,
                         !.result = IF o \in TransportFailures
                                    THEN [@ EXCEPT !.error_msg = o]
                                    ELSE [body |-> o,
                                          error_msg |-> IF HasErrorKey(o) THEN ErrorText(o)
                                                        ELSE @.error_msg]])
  /\ UNCHANGED <<balance, txs, orders, walletLock, txLock, gw, provCalls, nextRef,
                 nextOid, credited, cache, rules, quote, catalog, sync, profit, others>>

\* _make_request, lines 72-104, one turn of the loop: requests.post answers
\* (break, line 92), or fails in transport, and then the loop goes on while
\* attempts are left
RQ_Attempt(p) ==
  /\ pc[p] = "rq_attempt"
  /\ \E o \in AttemptOutcomes :
       LET l == loc[p]
           seen == Append(l.seen, o)
           again == o \in TransportFailures /\ Len(seen) < max_retries
       IN Goto(p, IF again THEN "rq_attempt" ELSE "rq_log",
               [l EXCEPT !.seen = seen,
                         !.result = IF o \in TransportFailures
                                    THEN [@ EXCEPT !.error_msg = o]
                                    ELSE [body |-> o,
                                          error_msg |-> IF HasErrorKey(o) THEN ErrorText(o)
                                                        ELSE @.error_msg]])
  /\ UNCHANGED <<balance, txs, orders, walletLock, txLock, gw, provCalls, nextRef,
                 nextOid, credited, cache, rules, quote, catalog, sync, profit, others>>

\* _make_request, lines 109-122: APILog.objects.create; an exception of the
\* insert is logged and swallowed
RQ_Log(p, inserted) ==
  /\ pc[p] = "rq_log"
  /\ Goto(p, "rq_result",
          [loc[p] EXCEPT !.log = IF inserted
                                 THEN <<[request_data |-> LoggedRequest(loc[p].buf),
                                         response_data |-> loc[p].result.body,
                                         error |-> loc[p].result.error_msg]>>
                                 ELSE <<>>])
  /\ UNCHANGED <<balance, txs, orders, walletLock, txLock, gw, provCalls, nextRef,
                 nextOid, credited, cache, rules, quote, catalog, sync, profit, others>>

\* _make_request, lines 124-127: raise SMMProviderError, or return the response
RQ_Result(p) ==
  /\ pc[p] = "rq_result"
  /\ Goto(p, "done",
          [loc[p] EXCEPT !.result = [raised |-> Raises(@.error_msg, @.body),
                                     body |-> @.body, error_msg |-> @.error_msg,
                                     attempts |-> Len(loc[p].seen)]])
  /\ UNCHANGED <<balance, txs, orders, walletLock, txLock, gw, provCalls, nextRef,
                 nextOid, credited, cache, rules, quote, catalog, sync, profit, others>>

\* ------------------------------------------- SMMProvider.get_services
\* the responses to the 'services' action: a list of services, an object with
\* an 'error' key, or anything else
CatalogResponses == {"list", "error", "error_empty", "other"}

\* the attempts one 'services' call can make (as Attempts)
CatalogAttempts ==
  { att \in UNION { [1..n -> TransportFailures \cup CatalogResponses] :
                     n \in 1..max_retries } :
      /\ \A i \in 1..(Len(att) - 1) : att[i] \in TransportFailures
      /\ att[Len(att)] \in TransportFailures => Len(att) = max_retries }

\* `if cached`: None and the empty list are falsy
Truthy(cached) == cached = "catalog"

\* get_services, lines 137-141: a caller asks for the catalog; sync_services_task
\* forces the refresh (tasks.py 29), the catalog views do not.  The provider is
\* configured (lines 144-145 not taken)
GS_Start(p) ==
  /\ pc[p] = "idle"
  /\ \E force_refresh \in BOOLEAN :
       LET l == Request("services")
       IN IF ~force_refresh /\ Truthy(cache)
          THEN Finish(p, l, "cached", NoBalance)
          ELSE Goto(p, "gs_call", l)
  /\ UNCHANGED <<balance, txs, orders, walletLock, txLock, gw, provCalls, nextRef,
                 nextOid, credited, cache, rules, quote, catalog, sync, profit, others>>

\* get_services, line 147: _make_request('services'); SMMProviderError is not
\* caught here and leaves get_services
GS_Call(p) ==
  /\ pc[p] = "gs_call"
  /\ \E att \in CatalogAttempts :
       LET r == MakeRequest(Padded(att))
       IN IF r.raised
          THEN Finish(p, loc[p], "raised", NoBalance)
          ELSE Goto(p, "gs_parse", [loc[p] EXCEPT !.seen = r.body])
  /\ UNCHANGED <<balance, txs, orders, walletLock, txLock, gw, provCalls, nextRef,
                 nextOid, credited, cache, rules, quote, catalog, sync, profit, others>>

\* get_services, lines 149-163: a list is cached and returned; an 'error'
\* falls back to the cache or the demo catalog; anything else is taken for an
\* empty catalog, which is cached
GS_Parse(p) ==
  /\ pc[p] = "gs_parse"
  /\ LET body == loc[p].seen
     IN IF body = "list"
        THEN /\ cache' = "catalog"
             /\ Finish(p, loc[p], "catalog", NoBalance)
        ELSE IF HasErrorKey(body)
        THEN /\ cache' = cache
             /\ Finish(p, loc[p], IF Truthy(cache) THEN "cached" ELSE "demo", NoBalance)
        ELSE /\ cache' = "empty"
             /\ Finish(p, loc[p], "empty", NoBalance)
  /\ UNCHANGED <<balance, txs, orders, walletLock, txLock, gw, provCalls, nextRef,
                 nextOid, credited, rules, quote, catalog, sync, profit, others>>

\* the cached catalog expires (SERVICE_CACHE_TTL)
GS_Expire ==
  /\ cache # "none"
  /\ cache' = "none"
  /\ UNCHANGED <<balance, txs, orders, walletLock, txLock, gw, provCalls, nextRef,
                 nextOid, credited, rules, quote, catalog, sync, profit, pc, loc, others>>

\* ---------------------------------------------------------- OrderCreateView
\* post, line 258: the balance check of the view
InsufficientBalance_Overdrawn(bal, charge) == bal < 0
InsufficientBalance(bal, charge) == bal < charge

\* (the view without transaction.atomic: the order row is committed by its
\* INSERT, before the charge)
PO_Start_Autocommit(p) ==
  /\ pc[p] = "idle"
  /\ nextOid <= MaxOrders
  /\ \E quantity \in Quantities :
       LET charge == calculate_price(TheService, quantity)
       IN /\ QuantityValid(TheService, quantity)
          /\ ~InsufficientBalance(balance, charge)
          /\ nextOid' = nextOid + 1
          /\ orders' = orders @@
                         (nextOid :> [charge |-> charge, status |-> "pending",
                                      provider_order_id |-> "",
                                      completed_at |-> FALSE])
          /\ Goto(p, "po_charge",
                  [Request("order") EXCEPT !.oid = nextOid,
                                  !.amount = charge, !.bal = balance,
                                  !.ostatus = "pending"])
  /\ UNCHANGED <<balance, txs, walletLock, txLock, gw, provCalls, nextRef,
                 credited, cache, rules, quote, catalog, sync, profit, others>>

\* post, lines 243-278 (inside transaction.atomic): validate, price, read the
\* wallet, check the balance, insert the order
PO_Start(p) ==
  /\ pc[p] = "idle"
  /\ nextOid <= MaxOrders
  /\ \E quantity \in Quantities :
       LET charge == calculate_price(TheService, quantity)
       IN IF ~QuantityValid(TheService, quantity)
          THEN /\ Finish(p, [Request("order") EXCEPT !.amount = charge], "400",
                         NoBalance)
               /\ nextOid' = nextOid
          ELSE IF InsufficientBalance(balance, charge)
          THEN /\ Finish(p, [Request("order") EXCEPT !.amount = charge],
                         "insufficient", NoBalance)
               /\ nextOid' = nextOid
          ELSE /\ nextOid' = nextOid + 1
               /\ Goto(p, "po_charge",
                       [Request("order") EXCEPT !.oid = nextOid,
                                       !.amount = charge, !.bal = balance,
                                       !.ostatus = "pending"])
  /\ UNCHANGED <<balance, txs, orders, walletLock, txLock, gw, provCalls, nextRef,
                 credited, cache, rules, quote, catalog, sync, profit, others>>

\* post, line 281: wallet.charge on the wallet object read above.  The UPDATE
\* takes the wallet row's lock, which the request keeps until it commits; a
\* ValueError leaves the view and rolls the request back
PO_Charge(p) ==
  /\ pc[p] = "po_charge"
  /\ IF ChargeRejects(loc[p].bal, loc[p].amount)
     THEN /\ Finish(p, loc[p], "500", NoBalance)
          /\ walletLock' = walletLock
     ELSE /\ walletLock = NoOne
          /\ walletLock' = p
          /\ LET newBal == ChargeBalance(loc[p].bal, loc[p].amount)
             IN Goto(p, "po_provider",
                     [loc[p] EXCEPT !.bal = newBal,
                                    !.buf = Append(@, ChargeTx(newBal, loc[p].amount,
                                                               loc[p].oid))])
  /\ UNCHANGED <<balance, txs, orders, txLock, gw, provCalls, nextRef, nextOid,
                 credited, cache, rules, quote, catalog, sync, profit, others>>

\* post, lines 284-302: smm_provider.create_order, up to max_retries attempts
PO_Provider(p) ==
  /\ pc[p] = "po_provider"
  /\ provCalls' = provCalls \cup {loc[p].oid}
  /\ \E att \in Attempts :
       Goto(p, "po_finish",
            [loc[p] EXCEPT !.seen = ProviderSaw(att),
                           !.result = ProviderOutcome(Padded(att))])
  /\ UNCHANGED <<balance, txs, orders, walletLock, txLock, gw, nextRef, nextOid,
                 credited, cache, rules, quote, catalog, sync, profit, others>>

\* the Order row as the request leaves it
OrderRow(l, status, poid) ==
  [charge |-> l.amount, status |-> status, provider_order_id |-> poid,
   completed_at |-> FALSE]

\* post, lines 295-325: record the provider's order id, or refund and fail the
\* order; the response is returned and the request's transaction commits
PO_Finish(p) ==
  /\ pc[p] = "po_finish"
  /\ LET l == loc[p]
         refund == l.result = "provider_error"
         newBal == IF refund THEN RefundBalance(l.bal, l.amount) ELSE l.bal
         buf == IF refund THEN Append(l.buf, RefundTx(newBal, l.amount, l.oid))
                ELSE l.buf
         row == IF l.result = "placed" THEN OrderRow(l, "processing", "P")
                ELSE IF refund THEN OrderRow(l, "failed", "")
                ELSE OrderRow(l, l.ostatus, "")
     IN /\ balance' = newBal
        /\ txs' = txs \o buf
        /\ orders' = orders @@ (l.oid :> row)
        /\ Finish(p, l, IF refund THEN "refunded" ELSE "placed", NoBalance)
  /\ walletLock' = NoOne
  /\ UNCHANGED <<txLock, gw, provCalls, nextRef, nextOid, credited, cache, rules, quote, catalog, sync, profit, others>>

\* the worker dies while it handles the order request: the database rolls the
\* request's open transaction back (the INSERT of the order, the charge and
\* whatever followed) and frees the wallet row; what the provider was sent stays
PO_Crash(p) ==
  /\ pc[p] \in {"po_charge", "po_provider", "po_finish"}
  /\ walletLock' = IF walletLock = p THEN NoOne ELSE walletLock
  /\ Goto(p, "crashed", [loc[p] EXCEPT !.sig = pc[p], !.buf = <<>>])
  /\ UNCHANGED <<balance, txs, orders, txLock, gw, provCalls, nextRef, nextOid,
                 credited, cache, rules, quote, catalog, sync, profit, others>>

\* the server starts a new worker in the place of the dead one
PO_Restart(p) ==
  /\ pc[p] = "crashed"
  /\ Goto(p, "idle", IdleLoc)
  /\ UNCHANGED <<balance, txs, orders, walletLock, txLock, gw, provCalls, nextRef,
                 nextOid, credited, cache, rules, quote, catalog, sync, profit, others>>

\* ------------------------------------------- provider order status
\* What GetOrderStatus can bring back: the upstream status string of a response
\* with a 'status' key, a response without one ("nostatus": e.g. {'error': ...}),
\* or SMMProviderError ("raise")
UpstreamStatuses == {"Completed", "in progress", "Canceled", "failed", "Bogus"}
StatusOutcomes == UpstreamStatuses \cup {"nostatus", "raise"}

\* str.lower() on the upstream strings
Lower(str) ==
  CASE str = "Completed" -> "completed"
    [] str = "Canceled" -> "canceled"
    [] str = "Bogus" -> "bogus"
    [] str = "Instagram" -> "instagram"
    [] str = "INSTAGRAM" -> "instagram"
    [] str = "TikTok" -> "tiktok"
    [] str = "Likes" -> "likes"
    [] str = "Views" -> "views"
    [] OTHER -> str

\* status_map of OrderDetailView._update_order_status (main.py 380-389), of
\* AdminOrderCheckStatusView (main.py 762-771) and of admin.py 159-168
StatusMapBase ==
  [k \in {"pending", "processing", "in progress", "completed", "partial",
          "canceled", "cancelled", "refunded"} |->
     CASE k = "in progress" -> "in_progress"
       [] k = "cancelled" -> "canceled"
       [] OTHER -> k]

\* status_map of sync_active_orders (utils.py 23-33)
StatusMapSync == StatusMapBase @@ ("failed" :> "failed")

\* dict.get: None for a key the table lacks
MapGet(map, key) == IF key \in DOMAIN map THEN map[key] ELSE "none"

\* the statuses the refresh paths call active
ActiveStatuses == {"pending", "processing", "in_progress"}

\* the REFUND transactions recorded
Refunds == { i \in 1..Len(txs) : txs[i].type = "refund" }

\* ------------------------------------------- AdminOrderCancelRefundView
\* post, line 692 (admin.py line 110): the statuses that forbid the refund
ForbidsCancel_NotCanceled(status) == status \in {"completed", "refunded"}
ForbidsCancel(status) == status \in {"completed", "canceled", "refunded"}

\* post, lines 683-691: one of the order_ids; Order.objects.get reads the row
CR_Start(p) ==
  /\ pc[p] = "idle"
  /\ Cardinality(Refunds) < MaxRefunds
  /\ \E oid \in DOMAIN orders :
       Goto(p, "cr_check", [Request("cancel") EXCEPT !.oid = oid, !.ord = orders[oid]])
  /\ UNCHANGED <<balance, txs, orders, walletLock, txLock, gw, provCalls, nextRef,
                 nextOid, credited, cache, rules, quote, catalog, sync, profit, others>>

\* post, lines 692-695: skip a forbidden order, else read order.user.wallet
CR_Check(p) ==
  /\ pc[p] = "cr_check"
  /\ IF ForbidsCancel(loc[p].ord.status)
     THEN Finish(p, loc[p], "skipped", NoBalance)
     ELSE Goto(p, "cr_refund", [loc[p] EXCEPT !.bal = balance,
                                              !.amount = loc[p].ord.charge])
  /\ UNCHANGED <<balance, txs, orders, walletLock, txLock, gw, provCalls, nextRef,
                 nextOid, credited, cache, rules, quote, catalog, sync, profit, others>>

\* post, line 696: wallet.refund, the save of the balance (models.py 171-172)
CR_Refund(p) ==
  /\ pc[p] = "cr_refund"
  /\ walletLock = NoOne
  /\ LET newBal == RefundBalance(loc[p].bal, loc[p].amount)
     IN /\ balance' = newBal
        /\ Goto(p, "cr_tx", [loc[p] EXCEPT !.bal = newBal])
  /\ UNCHANGED <<txs, orders, walletLock, txLock, gw, provCalls, nextRef, nextOid,
                 credited, cache, rules, quote, catalog, sync, profit, others>>

\* post, line 696: wallet.refund, the REFUND transaction (models.py 173-180)
CR_Tx(p) ==
  /\ pc[p] = "cr_tx"
  /\ txs' = Append(txs, RefundTx(loc[p].bal, loc[p].amount, loc[p].oid))
  /\ Goto(p, "cr_save", loc[p])
  /\ UNCHANGED <<balance, orders, walletLock, txLock, gw, provCalls, nextRef,
                 nextOid, credited, cache, rules, quote, catalog, sync, profit, others>>

\* post, lines 697-699: order.status = CANCELED; order.save() writes the row as
\* the handler holds it
CR_Save(p) ==
  /\ pc[p] = "cr_save"
  /\ orders' = [orders EXCEPT ![loc[p].oid] = [loc[p].ord EXCEPT !.status = "canceled"]]
  /\ Finish(p, loc[p], "refunded", NoBalance)
  /\ UNCHANGED <<balance, txs, walletLock, txLock, gw, provCalls, nextRef, nextOid,
                 credited, cache, rules, quote, catalog, sync, profit, others>>

\* ------------------------------------------- sync_active_orders
RECURSIVE NewestFirst(_)
\* Order.Meta.ordering = ['-created_at'] (models.py 360): ids are handed out in
\* the order of creation
NewestFirst(S) ==
  IF S = {} THEN <<>>
  ELSE LET m == CHOOSE x \in S : \A y \in S : y <= x
       IN <<m>> \o NewestFirst(S \ {m})

\* (the batch without the filter on provider_order_id)
SyncSelects_AnyId(row) == row.status \in ActiveStatuses

\* utils.py 11-18: the orders the batch selects
SyncSelects(row) == row.provider_order_id # "" /\ row.status \in ActiveStatuses

\* (the lookup without .lower())
SyncNewStatus_CaseSensitive(row, got) ==
  LET new_status == IF got \in UpstreamStatuses
                    THEN MapGet(StatusMapSync, got) ELSE "none"
  IN IF new_status # "none" /\ row.status # new_status THEN new_status ELSE "none"

\* utils.py 49-53: the status the batch would write, "none" when it writes nothing
SyncNewStatus(row, got) ==
  LET new_status == IF got \in UpstreamStatuses
                    THEN MapGet(StatusMapSync, Lower(got)) ELSE "none"
  IN IF new_status # "none" /\ row.status # new_status THEN new_status ELSE "none"

\* utils.py 11-21: the queryset is evaluated when the loop starts; each order
\* is the row as it was then
RC_Start(p) ==
  /\ pc[p] = "idle"
  /\ Cardinality({ q \in Workers : pc[q] = "rc_loop" }) < MaxSyncs
  /\ LET ids == NewestFirst({ o \in DOMAIN orders : SyncSelects(orders[o]) })
     IN Goto(p, "rc_loop",
             [Request("sync") EXCEPT
                !.sel = [i \in 1..Len(ids) |-> [oid |-> ids[i], row |-> orders[ids[i]]]]])
  /\ UNCHANGED <<balance, txs, orders, walletLock, txLock, gw, provCalls, nextRef,
                 nextOid, credited, cache, rules, quote, catalog, sync, profit, others>>

\* utils.py 35-74, one turn of the loop: get_order_status, then order.save() if
\* the mapped status differs.  got = "raise" is SMMProviderError; saveFails is
\* order.save() raising.  An exception is caught inside the loop
\* utils.py 54-64: the order as the batch saves it; completed_at is stamped on
\* the way into COMPLETED
Synced(row, new_status) ==
  [row EXCEPT !.status = new_status,
              !.completed_at = IF new_status = "completed" THEN TRUE ELSE @]

\* (the same turn with the handler around the loop: the first exception ends
\* the batch and the orders after it are left unprocessed)
RC_Order_Abort(p, got, saveFails) ==
  /\ pc[p] = "rc_loop"
  /\ Len(loc[p].outs) < Len(loc[p].sel)
  /\ LET l == loc[p]
         e == l.sel[Len(l.outs) + 1]
         new_status == SyncNewStatus(e.row, got)
         failed == got = "raise" \/ (new_status # "none" /\ saveFails)
         out == [oid |-> e.oid, failed |-> failed]
     IN /\ orders' = IF new_status # "none" /\ ~failed
                     THEN [orders EXCEPT ![e.oid] = Synced(e.row, new_status)]
                     ELSE orders
        /\ Goto(p, "rc_loop",
                [l EXCEPT !.outs = IF failed
                                   THEN Append(@, out) \o
                                        [i \in 1..(Len(l.sel) - Len(l.outs) - 1) |->
                                           [oid |-> l.sel[Len(l.outs) + 1 + i].oid,
                                            failed |-> FALSE]]
                                   ELSE Append(@, out),
                          !.errors = IF failed THEN @ + 1 ELSE @,
                          !.updated = IF new_status # "none" /\ ~failed
                                      THEN @ + 1 ELSE @])
  /\ UNCHANGED <<balance, txs, walletLock, txLock, gw, provCalls, nextRef, nextOid,
                 credited, cache, rules, quote, catalog, sync, profit, others>>

RC_Order(p, got, saveFails) ==
  /\ pc[p] = "rc_loop"
  /\ Len(loc[p].outs) < Len(loc[p].sel)
  /\ LET l == loc[p]
         e == l.sel[Len(l.outs) + 1]
         new_status == SyncNewStatus(e.row, got)
         failed == got = "raise" \/ (new_status # "none" /\ saveFails)
         out == [oid |-> e.oid, failed |-> failed]
     IN /\ orders' = IF new_status # "none" /\ ~failed
                     THEN [orders EXCEPT ![e.oid] = Synced(e.row, new_status)]
                     ELSE orders
        /\ Goto(p, "rc_loop",
                [l EXCEPT !.outs = Append(@, out),
                          !.seen = got,
                          !.errors = IF failed THEN @ + 1 ELSE @,
                          !.updated = IF new_status # "none" /\ ~failed
                                      THEN @ + 1 ELSE @])
  /\ UNCHANGED <<balance, txs, walletLock, txLock, gw, provCalls, nextRef, nextOid,
                 credited, cache, rules, quote, catalog, sync, profit, others>>

\* utils.py 76: the loop is over, the counts are returned
RC_End(p) ==
  /\ pc[p] = "rc_loop"
  /\ Len(loc[p].outs) = Len(loc[p].sel)
  /\ Finish(p, loc[p], "synced", NoBalance)
  /\ UNCHANGED <<balance, txs, orders, walletLock, txLock, gw, provCalls, nextRef,
                 nextOid, credited, cache, rules, quote, catalog, sync, profit, others>>

\* ------------------------------------------- OrderDetailView
\* get, lines 352-366: read the order; refresh it only if it has a provider
\* order id and is active
OD_Start(p) ==
  /\ pc[p] = "idle"
  /\ \E oid \in DOMAIN orders :
       LET l == [Request("detail") EXCEPT !.oid = oid, !.ord = orders[oid]]
       IN IF orders[oid].provider_order_id # "" /\ orders[oid].status \in ActiveStatuses
          THEN Goto(p, "od_query", l)
          ELSE Finish(p, l, "shown", NoBalance)
  /\ UNCHANGED <<balance, txs, orders, walletLock, txLock, gw, provCalls, nextRef,
                 nextOid, credited, cache, rules, quote, catalog, sync, profit, others>>

\* _update_order_status, lines 391-393: the status the order object gets
DetailStatus(row, got) ==
  IF Lower(got) \in DOMAIN StatusMapBase THEN StatusMapBase[Lower(got)]
  ELSE row.status

\* get, lines 366-376 and _update_order_status: SMMProviderError is passed
\* over; a response with a status is applied and the order saved in any case
OD_Query(p) ==
  /\ pc[p] = "od_query"
  /\ \E got \in StatusOutcomes :
       orders' = IF got \in UpstreamStatuses
                 THEN [orders EXCEPT ![loc[p].oid] =
                         [loc[p].ord EXCEPT
                            !.status = DetailStatus(loc[p].ord, got),
                            !.completed_at = IF DetailStatus(loc[p].ord, got) = "completed"
                                             THEN TRUE ELSE @]]
                 ELSE orders
  /\ Finish(p, loc[p], "shown", NoBalance)
  /\ UNCHANGED <<balance, txs, walletLock, txLock, gw, provCalls, nextRef, nextOid,
                 credited, cache, rules, quote, catalog, sync, profit, others>>

\* ------------------------------------------- AdminOrderCheckStatusView
\* post, lines 774-778 (admin.py 172-174): read the order; skip it only if it
\* has no provider order id
CS_Start(p) ==
  /\ pc[p] = "idle"
  /\ \E oid \in DOMAIN orders :
       LET l == [Request("check") EXCEPT !.oid = oid, !.ord = orders[oid]]
       IN IF orders[oid].provider_order_id = ""
          THEN Finish(p, l, "skipped", NoBalance)
          ELSE Goto(p, "cs_query", l)
  /\ UNCHANGED <<balance, txs, orders, walletLock, txLock, gw, provCalls, nextRef,
                 nextOid, credited, cache, rules, quote, catalog, sync, profit, others>>

\* post, lines 783-786: the status the view would write, "none" for no write
CheckNewStatus(row, got) ==
  LET new_status == IF got \in UpstreamStatuses
                    THEN MapGet(StatusMapBase, Lower(got)) ELSE "none"
  IN IF new_status # "none" /\ row.status # new_status THEN new_status ELSE "none"

\* post, lines 780-801: get_order_status, then order.save() if the mapped
\* status differs from the order's
CS_Query(p) ==
  /\ pc[p] = "cs_query"
  /\ \E got \in StatusOutcomes :
       LET new_status == CheckNewStatus(loc[p].ord, got)
       IN IF new_status # "none"
          THEN /\ orders' = [orders EXCEPT ![loc[p].oid] =
                               [loc[p].ord EXCEPT !.status = new_status]]
               /\ Finish(p, loc[p], "updated", NoBalance)
          ELSE /\ orders' = orders
               /\ Finish(p, loc[p], IF got = "raise" THEN "error" ELSE "skipped",
                         NoBalance)
  /\ UNCHANGED <<balance, txs, walletLock, txLock, gw, provCalls, nextRef, nextOid,
                 credited, cache, rules, quote, catalog, sync, profit, others>>

\* ------------------------------------------- AdminOrderRetryView
\* post, line 722 (admin.py 128): the orders that are not retried
NotRetryable(row) ==
  row.provider_order_id # "" \/ row.status \notin {"pending", "failed"}

\* post, lines 720-725: read the order, refuse one that is not retryable
RT_Start(p) ==
  /\ pc[p] = "idle"
  /\ \E oid \in DOMAIN orders :
       LET l == [Request("retry") EXCEPT !.oid = oid, !.ord = orders[oid]]
       IN IF NotRetryable(orders[oid])
          THEN Finish(p, l, "failed", NoBalance)
          ELSE Goto(p, "rt_call", l)
  /\ UNCHANGED <<balance, txs, orders, walletLock, txLock, gw, provCalls, nextRef,
                 nextOid, credited, cache, rules, quote, catalog, sync, profit, others>>

\* post, lines 727-746: create_order; an accepted order gets the provider's id
\* and PROCESSING, and is saved
RT_Call(p) ==
  /\ pc[p] = "rt_call"
  /\ provCalls' = provCalls \cup {loc[p].oid}
  /\ \E att \in Attempts :
       LET r == MakeRequest(Padded(att))
       IN IF ~r.raised /\ HasOrderKey(r.body)
          THEN /\ orders' = [orders EXCEPT ![loc[p].oid] =
                               [loc[p].ord EXCEPT !.provider_order_id = "P",
                                                  !.status = "processing"]]
               /\ Finish(p, loc[p], "retried", NoBalance)
          ELSE /\ orders' = orders
               /\ Finish(p, loc[p], "failed", NoBalance)
  /\ UNCHANGED <<balance, txs, walletLock, txLock, gw, nextRef, nextOid, credited, cache, rules, quote, catalog, sync, profit, others>>

\* ------------------------------------------- the Ledger operations, direct
\* A caller loads the wallet (Wallet.objects.get) and invokes operations on that
\* object.  Outside transaction.atomic each save() and each create() is a
\* statement of its own.
L_Load(p) ==
  /\ pc[p] = "idle"
  /\ Goto(p, "l_loaded", [Request("ledger") EXCEPT !.bal = balance])
  /\ UNCHANGED <<balance, txs, orders, walletLock, txLock, gw, provCalls, nextRef,
                 nextOid, credited, cache, rules, quote, catalog, sync, profit, others>>

\* the operation saved the wallet row and goes on to insert its transaction
Saved(p, kind, amount, newBal, tx) ==
  /\ walletLock = NoOne
  /\ balance' = newBal
  /\ nextOid' = nextOid + 1
  /\ Goto(p, "l_create_tx",
          [loc[p] EXCEPT !.kind = kind, !.amount = amount, !.before = loc[p].bal,
                         !.row = balance, !.bal = newBal, !.oid = nextOid,
                         !.buf = <<tx>>])

\* Wallet.deposit, lines 138-140
L_Deposit(p) ==
  /\ pc[p] = "l_loaded"
  /\ nextOid <= MaxLedgerOps
  /\ \E amount \in LedgerAmounts :
       LET newBal == DepositBalance(loc[p].bal, amount)
       IN Saved(p, "deposit", amount, newBal,
                [DepositTx(newBal, amount) EXCEPT !.order = nextOid])
  /\ UNCHANGED <<txs, orders, walletLock, txLock, gw, provCalls, nextRef, credited, cache, rules, quote, catalog, sync, profit, others>>

\* Wallet.charge, lines 153-157
L_Charge(p) ==
  /\ pc[p] = "l_loaded"
  /\ nextOid <= MaxLedgerOps
  /\ \E amount \in LedgerAmounts :
       IF ChargeRejects(loc[p].bal, amount)
       THEN /\ Goto(p, "l_done",
                    [loc[p] EXCEPT !.kind = "charge", !.amount = amount,
                                   !.before = loc[p].bal, !.oid = nextOid,
                                   !.result = "rejected"])
            /\ nextOid' = nextOid + 1
            /\ balance' = balance
       ELSE LET newBal == ChargeBalance(loc[p].bal, amount)
            IN Saved(p, "charge", amount, newBal, ChargeTx(newBal, amount, nextOid))
  /\ UNCHANGED <<txs, orders, walletLock, txLock, gw, provCalls, nextRef, credited, cache, rules, quote, catalog, sync, profit, others>>

\* Wallet.refund, lines 170-172
L_Refund(p) ==
  /\ pc[p] = "l_loaded"
  /\ nextOid <= MaxLedgerOps
  /\ \E amount \in LedgerAmounts :
       LET newBal == RefundBalance(loc[p].bal, amount)
       IN Saved(p, "refund", amount, newBal, RefundTx(newBal, amount, nextOid))
  /\ UNCHANGED <<txs, orders, walletLock, txLock, gw, provCalls, nextRef, credited, cache, rules, quote, catalog, sync, profit, others>>

\* Transaction.objects.create of deposit, charge and refund, and the return
L_CreateTx(p) ==
  /\ pc[p] = "l_create_tx"
  /\ txs' = txs \o loc[p].buf
  /\ Goto(p, "l_done", [loc[p] EXCEPT !.buf = <<>>, !.result = "applied"])
  /\ UNCHANGED <<balance, orders, walletLock, txLock, gw, provCalls, nextRef,
                 nextOid, credited, cache, rules, quote, catalog, sync, profit, others>>

\* self.save raises (the database fails the UPDATE): deposit, charge or refund
\* ends with the exception, before anything was written
L_SaveFails(p) ==
  /\ pc[p] = "l_loaded"
  /\ nextOid <= MaxLedgerOps
  /\ nextOid' = nextOid + 1
  /\ \E kind \in {"deposit", "charge", "refund"}, amount \in LedgerAmounts :
       /\ kind = "charge" => ~ChargeRejects(loc[p].bal, amount)
       /\ Goto(p, "l_done",
               [loc[p] EXCEPT !.kind = kind, !.amount = amount,
                              !.before = loc[p].bal, !.row = balance,
                              !.oid = nextOid, !.result = "error"])
  /\ UNCHANGED <<balance, txs, orders, walletLock, txLock, gw, provCalls, nextRef,
                 credited, cache, rules, quote, catalog, sync, profit, others>>

\* Transaction.objects.create raises (the database fails the INSERT): the
\* exception leaves deposit, charge or refund; the UPDATE of the wallet row was a
\* statement of its own and stays committed
L_CreateTxFails(p) ==
  /\ pc[p] = "l_create_tx"
  /\ Goto(p, "l_done", [loc[p] EXCEPT !.buf = <<>>, !.result = "error"])
  /\ UNCHANGED <<balance, txs, orders, walletLock, txLock, gw, provCalls, nextRef,
                 nextOid, credited, cache, rules, quote, catalog, sync, profit, others>>

\* the caller goes on with the same wallet object, or drops it
L_Next(p) ==
  /\ pc[p] = "l_done"
  /\ \/ Goto(p, "l_loaded", [Request("ledger") EXCEPT !.bal = loc[p].bal])
     \/ Goto(p, "idle", IdleLoc)
  /\ UNCHANGED <<balance, txs, orders, walletLock, txLock, gw, provCalls, nextRef,
                 nextOid, credited, cache, rules, quote, catalog, sync, profit, others>>

\* the unique index of Transaction.payment_reference (NULLs, written 0, are not
\* compared): the INSERT of a reference some row already holds raises
UniqueViolation_Off(ref) == FALSE

UniqueViolation(ref) ==
  /\ ref # 0
  /\ \E i \in DOMAIN txs : txs[i].ref = ref

\* Wallet.create_pending_deposit, lines 93-103; the caller passes the reference,
\* a fresh one or one that was used before
L_CreatePending(p) ==
  /\ pc[p] = "l_loaded"
  /\ \E amount \in LedgerAmounts, r \in Refs :
       /\ r <= nextRef
       /\ IF UniqueViolation(r)
            THEN /\ Goto(p, "l_done",
                         [loc[p] EXCEPT !.kind = "pending", !.amount = amount,
                                        !.ref = r, !.result = "error"])
                 /\ UNCHANGED <<txs, nextRef>>
            ELSE /\ txs' = Append(txs, PendingDepositTx(loc[p].bal, amount, r))
                 /\ nextRef' = IF r = nextRef THEN nextRef + 1 ELSE nextRef
                 /\ Goto(p, "l_done",
                         [loc[p] EXCEPT !.kind = "pending", !.amount = amount,
                                        !.ref = r, !.result = "applied"])
  /\ UNCHANGED <<balance, orders, walletLock, txLock, gw, provCalls, nextOid,
                 credited, cache, rules, quote, catalog, sync, profit, others>>

\* the caller holds a Transaction object read earlier and calls confirm_deposit
\* or fail_deposit with it
L_Settle(p) ==
  /\ pc[p] = "l_loaded"
  /\ nextOid <= MaxLedgerOps
  /\ nextOid' = nextOid + 1
  /\ \E r \in Refs, label \in {"cd_lock_wallet", "fail_deposit"} :
       /\ TxExists(r)
       /\ Goto(p, label, [loc[p] EXCEPT !.kind = "settle", !.ref = r,
                                        !.txStatus = TxOf(r).status,
                                        !.txAmount = TxOf(r).amount,
                                        !.result = "returned"])
  /\ UNCHANGED <<balance, txs, orders, walletLock, txLock, gw, provCalls, nextRef,
                 credited, cache, rules, quote, catalog, sync, profit, others>>

\* ------------------------------------------------------- PricingService
\* amounts are in ten-thousandths (10.0000 is 100000), percentages in percents
NoService == 0

\* service.category: the category of the Service row, none (0) when it has none
CategoryOf(service) ==
  IF catalog[service].exists THEN catalog[service].category ELSE 0

\* a MarkupRule row; the target columns the rule's level does not use are empty
MarkupRule(level, percentage, fixed_addition, priority, is_active) ==
  [level |-> level,
   service_id |-> IF level = "service" THEN 1 ELSE 0,
   category_id |-> IF level = "category" THEN 1 ELSE 0,
   platform |-> IF level = "platform" THEN "Instagram" ELSE "",
   percentage |-> percentage, fixed_addition |-> fixed_addition,
   priority |-> priority, is_active |-> is_active]

Levels == {"service", "category", "platform", "global"}

\* the rows the rule table is drawn from: every active combination, and one
\* inactive row for each level
RuleInputs ==
  {MarkupRule(lv, pct, fx, pr, TRUE) :
     lv \in Levels, pct \in Percentages, fx \in FixedAdditions, pr \in Priorities}
  \cup {MarkupRule(lv, 20, 20000, 2, FALSE) : lv \in Levels}

\* category names are sequences of words
CategoryNames == {<<>>, <<"Instagram", "Likes">>, <<"TikTok", "Views">>}
PlatformArgs == {"", "INSTAGRAM"}

\* the list of _detect_platform, line 93 (its first two entries)
platforms == <<"instagram", "tiktok">>

\* str.capitalize
Capitalize(str) ==
  CASE str = "instagram" -> "Instagram"
    [] str = "tiktok" -> "Tiktok"
    [] OTHER -> str

\* `platform in category_lower`
Contains(category_name, platform) ==
  \E i \in DOMAIN category_name : Lower(category_name[i]) = platform

\* _detect_platform, lines 88-99: the first platform of the list the name holds
DetectPlatform(category_name) ==
  IF \E i \in DOMAIN platforms : Contains(category_name, platforms[i])
  THEN Capitalize(platforms[CHOOSE i \in DOMAIN platforms :
                    /\ Contains(category_name, platforms[i])
                    /\ \A j \in 1..(i - 1) : ~Contains(category_name, platforms[j])])
  ELSE ""

Max(a, b) == IF a >= b THEN a ELSE b

\* Decimal.quantize(Decimal('0.0001')) of num / den under the default context
\* (ROUND_HALF_EVEN), in ten-thousandths
Quantize(num, den) ==
  LET q == num \div den
      r == num % den
  IN IF 2 * r > den \/ (2 * r = den /\ q % 2 = 1) THEN q + 1 ELSE q

\* MarkupRule.objects.filter(is_active=True).order_by('-priority'): the active
\* rows by descending priority, rows of equal priority in any order
RuleOrders ==
  LET active == {r \in rules : r.is_active}
  IN {rs \in [1..Cardinality(active) -> active] :
        /\ \A i, j \in DOMAIN rs : i # j => rs[i] # rs[j]
        /\ \A i, j \in DOMAIN rs : i < j => rs[i].priority >= rs[j].priority}

\* the service-level branch returns at once, lines 57-58
ReturnsAtOnce_Never(rule) == FALSE

ReturnsAtOnce(rule) == rule.fixed_addition > 0

\* the loop of calculate_user_rate, lines 53-77, from the i-th rule on; acc
\* holds applied_percentage and applied_fixed
RECURSIVE RuleLoop(_, _, _, _, _, _, _)
RuleLoop(rs, i, provider_rate, service, category, platform, acc) ==
  IF i > Len(rs) THEN acc
  ELSE
    LET rule == rs[i]
        next(a) == RuleLoop(rs, i + 1, provider_rate, service, category, platform, a)
    IN IF rule.level = "service" /\ service # NoService
       THEN IF rule.service_id = service
            THEN IF ReturnsAtOnce(rule)
                 THEN [acc EXCEPT !.returned = TRUE,
                                  !.result = provider_rate + rule.fixed_addition]
                 ELSE next([acc EXCEPT !.percentage = Max(@, rule.percentage)])
            ELSE next(acc)
       ELSE IF rule.level = "category"
       THEN IF category # 0 /\ rule.category_id = category
            THEN next([acc EXCEPT !.percentage = Max(@, rule.percentage),
                                  !.fixed = Max(@, rule.fixed_addition)])
            ELSE next(acc)
       ELSE IF rule.level = "platform"
       THEN IF platform # "" /\ Lower(rule.platform) = Lower(platform)
            THEN next([acc EXCEPT !.percentage = Max(@, rule.percentage),
                                  !.fixed = Max(@, rule.fixed_addition)])
            ELSE next(acc)
       ELSE IF rule.level = "global"
       THEN next([acc EXCEPT
                    !.percentage = IF @ = 0 THEN rule.percentage ELSE @,
                    !.fixed = IF @ = 0 THEN rule.fixed_addition ELSE @])
       ELSE next(acc)

\* calculate_user_rate, lines 37-85, over the rules in the order rs
calculate_user_rate(rs, provider_rate, service, category_name, platform_arg) ==
  LET category == IF service # NoService THEN CategoryOf(service) ELSE 0
      platform == IF platform_arg = "" /\ category_name # <<>>
                  THEN DetectPlatform(category_name) ELSE platform_arg
      acc == RuleLoop(rs, 1, provider_rate, service, category, platform,
                      [returned |-> FALSE, result |-> 0, percentage |-> 0,
                       fixed |-> 0])
  IN IF acc.returned THEN acc
     ELSE [acc EXCEPT !.result =
             Quantize(provider_rate * (100 + acc.percentage)
                        + 100 * (IF acc.fixed > 0 THEN acc.fixed ELSE 0), 100)]

\* a caller prices a rate: calculate_user_rate runs and returns
RU_Call ==
  /\ ~quote.called
  /\ \E provider_rate \in ProviderRates, service \in Services \cup {NoService},
        category_name \in CategoryNames, platform_arg \in PlatformArgs,
        rs \in RuleOrders :
       LET out == calculate_user_rate(rs, provider_rate, service, category_name,
                                      platform_arg)
       IN quote' = [called |-> TRUE, provider_rate |-> provider_rate,
                    service |-> service,
                    category |-> IF service # NoService THEN CategoryOf(service)
                                 ELSE 0,
                    platform |-> IF platform_arg = "" /\ category_name # <<>>
                                 THEN DetectPlatform(category_name) ELSE platform_arg,
                    returned |-> out.returned, percentage |-> out.percentage,
                    fixed |-> out.fixed, result |-> out.result]
  /\ UNCHANGED <<balance, txs, orders, walletLock, txLock, gw, provCalls, nextRef,
                 nextOid, credited, cache, rules, catalog, sync, profit, pc, loc, others>>

\* the caller has used the rate
RU_Return ==
  /\ quote.called
  /\ quote' = NoQuote
  /\ UNCHANGED <<balance, txs, orders, walletLock, txLock, gw, provCalls, nextRef,
                 nextOid, credited, cache, rules, catalog, sync, profit, pc, loc, others>>

\* the rule matches the call's service, category or platform (lines 55-56, 63,
\* 68, 72)
Matches(rule, q) ==
  CASE rule.level = "service" -> q.service # NoService /\ rule.service_id = q.service
    [] rule.level = "category" -> q.category # 0 /\ rule.category_id = q.category
    [] rule.level = "platform" ->
         q.platform # "" /\ Lower(rule.platform) = Lower(q.platform)
    [] OTHER -> rule.level = "global"

\* the active rules that match the last call
Matching == {r \in rules : r.is_active /\ Matches(r, quote)}

\* the precedence of the docstring, lines 14-18
Precedence(level) ==
  CASE level = "service" -> 4
    [] level = "category" -> 3
    [] level = "platform" -> 2
    [] OTHER -> 1

\* ------------------------------------------------- sync_service_prices
\* a Service row; its primary key is taken to be its provider_id
ServiceRow(id, category, category_name, provider_rate, user_rate, is_active) ==
  [exists |-> TRUE, id |-> id, provider_id |-> id, category |-> category,
   category_name |-> category_name, provider_rate |-> provider_rate,
   user_rate |-> user_rate, is_active |-> is_active]

\* the entries of an upstream batch: 'service' (0 when the key is missing),
\* 'rate' and 'category'
BatchEntries ==
  [service : Services \cup {0}, rate : {SyncRate},
   category : {<<>>, <<"Instagram", "Likes">>}]

\* the batches get_services hands over: lists of at most MaxBatch entries
Batches == UNION {[1..n -> BatchEntries] : n \in 0..MaxBatch}

\* the Service tables a sync may find: each provider_id has no row, or a row in
\* the category of its own number synced earlier at another rate, listed or unlisted
InitCatalogs ==
  [Services -> {NoRow}] \cup
  {[id \in Services |->
      IF id \in present
      THEN ServiceRow(id, id, <<"TikTok", "Views">>, 50000, 60000,
                      id \in active)
      ELSE NoRow] : present \in SUBSET Services, active \in SUBSET Services}

\* Service.objects.update_or_create(provider_id=..., defaults=...), lines
\* 131-147: the row is updated, keeping its key and its category, or created
\* with no category
UpdateOrCreate(table, svc, user_rate) ==
  [table EXCEPT ![svc.service] =
     ServiceRow(svc.service,
                IF table[svc.service].exists THEN table[svc.service].category ELSE 0,
                svc.category, svc.rate, user_rate, TRUE)]

\* the rate of the entry, line 125: the service is not passed
SyncUserRate(rs, svc) ==
  calculate_user_rate(rs, svc.rate, NoService, svc.category, "").result

\* `if synced_provider_ids`, line 152
DeactivatesStale(ids) == ids # {}

\* sync_service_prices is called with a batch, lines 112-113
SP_Start ==
  /\ sync.pc = "idle"
  /\ \E batch \in Batches :
       sync' = [pc |-> "loop", batch |-> batch, i |-> 1, ids |-> {},
                before |-> catalog, count |-> 0]
  /\ UNCHANGED <<balance, txs, orders, walletLock, txLock, gw, provCalls, nextRef,
                 nextOid, credited, cache, rules, quote, catalog, profit, pc, loc, others>>

\* one turn of the loop, lines 115-150: an entry without 'service' is skipped;
\* otherwise its rate is resolved and its row is written
SP_Entry ==
  /\ sync.pc = "loop"
  /\ sync.i <= Len(sync.batch)
  /\ LET svc == sync.batch[sync.i]
     IN IF svc.service = 0
        THEN /\ sync' = [sync EXCEPT !.i = @ + 1]
             /\ UNCHANGED catalog
        ELSE \E rs \in RuleOrders :
               /\ catalog' = UpdateOrCreate(catalog, svc, SyncUserRate(rs, svc))
               /\ sync' = [sync EXCEPT !.i = @ + 1, !.ids = @ \cup {svc.service},
                                       !.count = @ + 1]
  /\ UNCHANGED <<balance, txs, orders, walletLock, txLock, gw, provCalls, nextRef,
                 nextOid, credited, cache, rules, quote, profit, pc, loc, others>>

\* after the loop, lines 152-158: the active rows that were not synced are
\* deactivated, when anything was synced; the count is returned
SP_Stale ==
  /\ sync.pc = "loop"
  /\ sync.i > Len(sync.batch)
  /\ catalog' = IF DeactivatesStale(sync.ids)
                THEN [id \in Services |->
                        IF catalog[id].exists /\ id \notin sync.ids
                           /\ catalog[id].is_active
                        THEN [catalog[id] EXCEPT !.is_active = FALSE]
                        ELSE catalog[id]]
                ELSE catalog
  /\ sync' = [sync EXCEPT !.pc = "done"]
  /\ UNCHANGED <<balance, txs, orders, walletLock, txLock, gw, provCalls, nextRef,
                 nextOid, credited, cache, rules, quote, profit, pc, loc, others>>

\* the caller has the count
SP_Return ==
  /\ sync.pc = "done"
  /\ sync' = NoSync
  /\ UNCHANGED <<balance, txs, orders, walletLock, txLock, gw, provCalls, nextRef,
                 nextOid, credited, cache, rules, quote, catalog, profit, pc, loc, others>>

\* the provider ids of the entries of a batch that carry one
BatchIds(batch) == {batch[i].service : i \in DOMAIN batch} \ {0}

\* ------------------------------------------------ calculate_order_profit
\* quantize of a signed amount: ROUND_HALF_EVEN rounds the magnitude
QuantizeSigned(num, den) ==
  IF num < 0 THEN 0 - Quantize(0 - num, den) ELSE Quantize(num, den)

\* every term is rounded on its own, not the difference
calculate_order_profit_RoundsTerms(provider_rate, user_rate, quantity) ==
  Quantize(user_rate * quantity, 1000) - Quantize(provider_rate * quantity, 1000)

\* calculate_order_profit, lines 176-178: the two divisions by 1000 are exact in
\* Decimal, the difference is rounded to four places
calculate_order_profit(provider_rate, user_rate, quantity) ==
  QuantizeSigned(user_rate * quantity - provider_rate * quantity, 1000)

\* a caller calculates the profit of a quantity and of twice the quantity
PF_Call ==
  /\ ~profit.called
  /\ \E provider_rate \in ProfitRates, user_rate \in ProfitRates,
        quantity \in ProfitQuantities :
       profit' = [called |-> TRUE, provider_rate |-> provider_rate,
                  user_rate |-> user_rate, quantity |-> quantity,
                  result |-> calculate_order_profit(provider_rate, user_rate,
                                                    quantity),
                  doubled |-> calculate_order_profit(provider_rate, user_rate,
                                                     2 * quantity)]
  /\ UNCHANGED <<balance, txs, orders, walletLock, txLock, gw, provCalls, nextRef,
                 nextOid, credited, cache, rules, quote, catalog, sync, pc, loc, others>>

\* the caller has used the results
PF_Return ==
  /\ profit.called
  /\ profit' = NoProfit
  /\ UNCHANGED <<balance, txs, orders, walletLock, txLock, gw, provCalls, nextRef,
                 nextOid, credited, cache, rules, quote, catalog, sync, pc, loc, others>>

\* --------------------------------------------------------- specification
\* the profit calculation over ProfitRates and ProfitQuantities
NextProfit ==
  \/ PF_Call
  \/ PF_Return

SpecProfit == Init /\ [][NextProfit]_vars

\* the catalog sync over a few rule tables, Service tables and batches
SyncRuleTables ==
  {t \in SUBSET {r \in RuleInputs : r.priority = 1 /\ r.is_active
                                     /\ r.percentage # 20} :
     Cardinality(t) <= 2}

InitCatalogSync ==
  /\ InitState
  /\ rules \in SyncRuleTables
  /\ catalog \in InitCatalogs
  /\ \A r \in rules : r.level = "service" => catalog[r.service_id].exists

NextCatalogSync ==
  \/ SP_Start
  \/ SP_Entry
  \/ SP_Stale
  \/ SP_Return

SpecCatalogSync == InitCatalogSync /\ [][NextCatalogSync]_vars

\* the pricing resolver over every rule table of at most MaxRules rows
RuleTables ==
  {{}} \cup {{f[i] : i \in 1..MaxRules} : f \in [1..MaxRules -> RuleInputs]}

InitPricing ==
  /\ InitState
  /\ rules \in RuleTables
  /\ catalog = [id \in Services |->
                  ServiceRow(id, id, <<"TikTok", "Views">>, 50000, 60000, TRUE)]

NextPricing ==
  \/ RU_Call
  \/ RU_Return

SpecPricing == InitPricing /\ [][NextPricing]_vars

Next ==
  \/ \E r \in Refs : GW_Pay(r)
  \/ \E p \in Workers :
       \/ IN_Start(p)
       \/ IN_Gateway(p)
       \/ FailDeposit(p)
       \/ CD_LockWallet(p)
       \/ CD_LockTx(p)
       \/ CD_Apply(p)
       \/ VF_Start(p)
       \/ VF_Gateway(p)
       \/ WH_Start(p)
       \/ PO_Start(p)
       \/ PO_Charge(p)
       \/ PO_Provider(p)
       \/ PO_Finish(p)
       \/ Return(p)

Spec == Init /\ [][Next]_vars

NextLedger ==
  \E p \in Workers :
    \/ L_Load(p)
    \/ L_Deposit(p)
    \/ L_Charge(p)
    \/ L_Refund(p)
    \/ L_CreateTx(p)
    \/ L_SaveFails(p)
    \/ L_CreateTxFails(p)
    \/ L_Next(p)
    \/ L_CreatePending(p)
    \/ L_Settle(p)
    \/ CD_LockWallet(p)
    \/ CD_LockTx(p)
    \/ CD_Apply(p)
    \/ FailDeposit(p)
    \/ Return(p)

\* the top-up protocol alone: initiate, verify, webhook and the customer paying
NextDeposit ==
  \/ \E r \in Refs : GW_Pay(r)
  \/ \E p \in Workers :
       \/ IN_Start(p)
       \/ IN_Gateway(p)
       \/ FailDeposit(p)
       \/ CD_LockWallet(p)
       \/ CD_LockTx(p)
       \/ CD_Apply(p)
       \/ VF_Start(p)
       \/ VF_Gateway(p)
       \/ WH_Start(p)
       \/ Return(p)

SpecDeposit == Init /\ [][NextDeposit]_vars

\* order placement alone
NextOrder ==
  \E p \in Workers :
    \/ PO_Start(p)
    \/ PO_Charge(p)
    \/ PO_Provider(p)
    \/ PO_Finish(p)
    \/ Return(p)

SpecOrder == Init /\ [][NextOrder]_vars

\* order placement with workers that may die
NextCrash ==
  \E p \in Workers :
    \/ PO_Start(p)
    \/ PO_Charge(p)
    \/ PO_Provider(p)
    \/ PO_Finish(p)
    \/ PO_Crash(p)
    \/ PO_Restart(p)
    \/ Return(p)

SpecCrash == Init /\ [][NextCrash]_vars

\* order placement and the admin's cancel-and-refund
NextCancel ==
  \E p \in Workers :
    \/ PO_Start(p)
    \/ PO_Charge(p)
    \/ PO_Provider(p)
    \/ PO_Finish(p)
    \/ CR_Start(p)
    \/ CR_Check(p)
    \/ CR_Refund(p)
    \/ CR_Tx(p)
    \/ CR_Save(p)
    \/ Return(p)

SpecCancel == Init /\ [][NextCancel]_vars

\* order placement, the order-detail refresh, the admin's check-status and retry
NextAdmin ==
  \E p \in Workers :
    \/ PO_Start(p)
    \/ PO_Charge(p)
    \/ PO_Provider(p)
    \/ PO_Finish(p)
    \/ OD_Start(p)
    \/ OD_Query(p)
    \/ CS_Start(p)
    \/ CS_Query(p)
    \/ RT_Start(p)
    \/ RT_Call(p)
    \/ Return(p)

SpecAdmin == Init /\ [][NextAdmin]_vars

\* calls of the provider gateway
NextProvider ==
  \E p \in Workers :
    \/ RQ_Start(p)
    \/ RQ_Attempt(p)
    \/ \E inserted \in BOOLEAN : RQ_Log(p, inserted)
    \/ RQ_Result(p)
    \/ Return(p)

SpecProvider == Init /\ [][NextProvider]_vars

\* a call that has begun takes its next step: every attempt ends, by a response
\* or by the timeout of the request
ProviderProgress(p) ==
  \/ RQ_Attempt(p)
  \/ \E inserted \in BOOLEAN : RQ_Log(p, inserted)
  \/ RQ_Result(p)

SpecProviderFair == SpecProvider /\ \A p \in Workers : WF_vars(ProviderProgress(p))

\* the service catalog: the sync task and the catalog views
NextCatalog ==
  \/ GS_Expire
  \/ \E p \in Workers :
       \/ GS_Start(p)
       \/ GS_Call(p)
       \/ GS_Parse(p)
       \/ Return(p)

SpecCatalog == Init /\ [][NextCatalog]_vars

\* the periodic reconciliation of the orders placed
NextSync ==
  \E p \in Workers :
    \/ PO_Start(p)
    \/ PO_Charge(p)
    \/ PO_Provider(p)
    \/ PO_Finish(p)
    \/ RC_Start(p)
    \/ \E got \in StatusOutcomes, saveFails \in BOOLEAN : RC_Order(p, got, saveFails)
    \/ RC_End(p)
    \/ Return(p)

SpecSync == Init /\ [][NextSync]_vars

\* the reconciliation batch next to order placement and the admin's
\* cancel-and-refund; one worker serves the customers' order requests
NextReconcile ==
  \/ \E p \in Customers :
       \/ PO_Start(p)
       \/ PO_Charge(p)
       \/ PO_Provider(p)
       \/ PO_Finish(p)
  \/ \E p \in Workers :
       \/ CR_Start(p)
       \/ CR_Check(p)
       \/ CR_Refund(p)
       \/ CR_Tx(p)
       \/ CR_Save(p)
       \/ RC_Start(p)
       \/ \E got \in StatusOutcomes, saveFails \in BOOLEAN : RC_Order(p, got, saveFails)
       \/ RC_End(p)
       \/ Return(p)

SpecReconcile == Init /\ [][NextReconcile]_vars

\* every handler that writes an order's status or provider_order_id: one
\* worker serves the customers' order requests, the other the back office and
\* the status refreshes
NextStatus ==
  \/ \E p \in Customers :
       \/ PO_Start(p)
       \/ PO_Charge(p)
       \/ PO_Provider(p)
       \/ PO_Finish(p)
       \/ Return(p)
  \/ \E p \in Staff :
       \/ CR_Start(p)
       \/ CR_Check(p)
       \/ CR_Refund(p)
       \/ CR_Tx(p)
       \/ CR_Save(p)
       \/ OD_Start(p)
       \/ OD_Query(p)
       \/ CS_Start(p)
       \/ CS_Query(p)
       \/ RT_Start(p)
       \/ RT_Call(p)
       \/ RC_Start(p)
       \/ \E got \in StatusOutcomes, saveFails \in BOOLEAN : RC_Order(p, got, saveFails)
       \/ RC_End(p)
       \/ Return(p)

SpecStatus == Init /\ [][NextStatus]_vars


\* the Ledger's operations invoked directly, in any order and interleaving
SpecLedger == Init /\ [][NextLedger]_vars

\* a ledger operation of p that has begun takes its next step
LedgerProgress(p) ==
  \/ L_CreateTx(p)
  \/ CD_LockWallet(p)
  \/ CD_LockTx(p)
  \/ CD_Apply(p)
  \/ FailDeposit(p)

\* SpecLedger, where a process that can take its next statement (the lock it
\* waits for being free) eventually takes it
SpecLedgerFair == SpecLedger /\ \A p \in Workers : WF_vars(LedgerProgress(p))

\* ================================================================ claims
ConfirmPcs == {"cd_lock_wallet", "cd_lock_tx", "cd_apply"}

\* no ledger operation or request is in progress
Quiescent == \A p \in Workers : pc[p] \in {"idle", "done"}

RECURSIVE SumApplied(_)
\* the signed amounts of the mutations applied to the wallet: every charge,
\* refund and direct deposit, and every top-up once per time it was credited
SumApplied(s) ==
  IF s = <<>> THEN 0
  ELSE (IF Head(s).ref = 0 THEN Head(s).amount
        ELSE credited[Head(s).ref] * Head(s).amount) + SumApplied(Tail(s))

\* the transactions of type ty recorded for order oid
TxsFor(s, oid, ty) == { i \in 1..Len(s) : s[i].order = oid /\ s[i].type = ty }

\* C1: whenever no operation is in progress, the wallet balance equals the sum of
\* the amounts of its SUCCESS transactions.
C1_BalanceIsSumOfSuccess == Quiescent => balance = SumSuccess(txs)

\* C2: confirm_deposit credits a transaction at most once; the invocation that
\* finds the row PENDING under the locks adds its amount to the balance, sets it
\* SUCCESS and snapshots the new balance in balance_after; every other invocation
\* changes nothing and returns the current balance.
C2_ConfirmIdempotent ==
  /\ [](\A r \in Refs : credited[r] <= 1)
  /\ [][\A p \in Workers : CD_Apply(p) =>
          LET r == loc[p].ref
          IN IF TxOf(r).status = PENDING
             THEN /\ credited[r] = 0
                  /\ balance' = balance + TxOf(r).amount
                  /\ TxOf(r)'.status = SUCCESS
                  /\ TxOf(r)'.balance_after = balance'
                  /\ loc'[p].bal = balance'
             ELSE /\ UNCHANGED <<balance, txs, credited>>
                  /\ loc'[p].bal = balance]_vars

\* C2 witness: both workers invoked confirm_deposit on the same transaction and
\* returned; it was credited once.
C2_Witness ==
  /\ credited[1] = 1
  /\ \A p \in Workers :
       pc[p] = "done" /\ loc[p].ref = 1 /\ loc[p].bal # NoBalance

\* a worker returned from a request of this kind for reference r in which it
\* called confirm_deposit
Confirmed(p, kind, r) ==
  /\ pc[p] = "done"
  /\ loc[p].kind = kind
  /\ loc[p].ref = r
  /\ loc[p].bal # NoBalance

\* C3: a Verify and a Webhook that both report success for the same reference
\* credit the wallet exactly once, whichever comes first and however they
\* interleave (no failure was reported for the payment).
C3_VerifyWebhookCreditOnce ==
  \A r \in Refs :
    /\ credited[r] <= 1
    /\ \A p, q \in Workers :
         ( /\ Confirmed(p, "verify", r)
           /\ Confirmed(q, "webhook", r)
           /\ TxOf(r).status # FAILED )
         => credited[r] = 1 /\ TxOf(r).status = SUCCESS

\* C3 witness: a Verify and a gateway-signed Webhook both confirmed reference 1.
C3_Witness ==
  \E p, q \in Workers :
    /\ Confirmed(p, "verify", 1)
    /\ Confirmed(q, "webhook", 1)
    /\ loc[q].sig = "valid"
    /\ credited[1] = 1

\* C4: a charge that succeeded was covered by the balance of the wallet row at
\* that moment and debits exactly that balance, so two charges whose sum exceeds
\* the balance never both succeed.
C4_NoOverdraft ==
  \A p \in Workers :
    pc[p] \in {"po_provider", "po_finish"} =>
      /\ balance >= loc[p].amount
      /\ loc[p].bal = balance - loc[p].amount

\* C5: balance-mutating operations are serialized: the balance is the initial
\* balance plus the signed amounts of all the mutations applied.
C5_MutationsSerialized == balance = SumApplied(txs)

\* the transactions recorded by the ledger operation tagged op
TxsOfOp(op) == { i \in 1..Len(txs) : txs[i].order = op }

\* C7: Charge on a wallet object is rejected whenever its balance is below the
\* amount, leaving the balance as it was and creating no transaction; otherwise
\* it lowers the balance by exactly the amount and creates exactly one SUCCESS
\* transaction of -amount whose balance_after is the new balance (the database
\* failing no statement of it).
C7_ChargeContract ==
  \A p \in Workers :
    (pc[p] = "l_done" /\ loc[p].kind = "charge" /\ loc[p].result # "error") =>
      IF loc[p].before < loc[p].amount
      THEN /\ loc[p].result = "rejected"
           /\ loc[p].bal = loc[p].before
           /\ TxsOfOp(loc[p].oid) = {}
      ELSE /\ loc[p].result = "applied"
           /\ loc[p].bal = loc[p].before - loc[p].amount
           /\ Cardinality(TxsOfOp(loc[p].oid)) = 1
           /\ \A i \in TxsOfOp(loc[p].oid) :
                txs[i] = [type |-> "charge", amount |-> 0 - loc[p].amount,
                          balance_after |-> loc[p].bal, status |-> SUCCESS,
                          ref |-> 0, order |-> loc[p].oid]

\* C7 witness: one Charge was applied and another, on a wallet object whose
\* balance is below the amount, was rejected.
C7_Witness ==
  \E p, q \in Workers :
    /\ pc[p] = "l_done" /\ loc[p].kind = "charge" /\ loc[p].result = "rejected"
    /\ pc[q] = "l_done" /\ loc[q].kind = "charge" /\ loc[q].result = "applied"

\* CreateOrder failed in the sense of the claim: a structured error response, or
\* a transport failure on every attempt
ProviderFailed(seen) == seen.body \in {"error", "error_empty", "none"}

\* C6: when CreateOrder fails, the request leaves the balance it started with,
\* the order FAILED, and exactly one CHARGE and one REFUND transaction of the
\* order's charge.
C6_ProviderFailureRefunds ==
  [][\A p \in Workers :
       (pc[p] = "po_finish" /\ pc'[p] = "done" /\ ProviderFailed(loc[p].seen)) =>
         LET oid == loc[p].oid
         IN /\ balance' = loc[p].bal + loc[p].amount
            /\ orders'[oid].status = "failed"
            /\ Cardinality(TxsFor(txs', oid, "charge")) = 1
            /\ Cardinality(TxsFor(txs', oid, "refund")) = 1
            /\ \A i \in TxsFor(txs', oid, "charge") :
                 txs'[i].amount = 0 - orders'[oid].charge
            /\ \A i \in TxsFor(txs', oid, "refund") :
                 txs'[i].amount = orders'[oid].charge]_vars

\* the charge of order oid has been debited: its CHARGE transaction is committed
\* or written by the request that is placing the order
ChargeDebited(oid) ==
  \/ TxsFor(txs, oid, "charge") # {}
  \/ \E p \in Workers : loc[p].oid = oid /\ TxsFor(loc[p].buf, oid, "charge") # {}

\* C8: a PlaceOrder whose charge exceeds the balance is rejected and changes
\* nothing; the provider is only ever called for an order whose charge has been
\* debited.
C8_InsufficientNoSideEffects ==
  /\ [](\A oid \in provCalls : ChargeDebited(oid))
  /\ [][\A p \in Workers :
          (pc[p] = "idle" /\ loc'[p].kind = "order" /\ loc'[p].amount > balance) =>
            /\ pc'[p] = "done"
            /\ loc'[p].result \in {"insufficient", "400"}
            /\ UNCHANGED <<balance, txs, orders, provCalls, walletLock>>]_vars

\* C8 witness: an order was rejected for insufficient balance after another one
\* went to the provider.
C8_Witness ==
  /\ provCalls # {}
  /\ \E p \in Workers :
       pc[p] = "done" /\ loc[p].kind = "order" /\ loc[p].result = "insufficient"

\* C9: a settled transaction (SUCCESS or FAILED) never changes status again.
C9_SettledOnce ==
  [][\A r \in Refs :
       (TxExists(r) /\ TxOf(r).status # PENDING) =>
         TxOf(r)'.status = TxOf(r).status]_vars

\* C10: a webhook that carries no signature or an invalid one never changes a
\* transaction or the balance.
C10_UnsignedWebhookRejected ==
  [][\A p \in Workers :
       (loc[p].kind = "webhook" /\ loc[p].sig # "valid" /\ pc'[p] # pc[p]) =>
         UNCHANGED <<balance, txs>>]_vars

\* C11: Deposit, Charge and Refund are all-or-nothing: when the save of the
\* balance fails nothing is written, and when the creation of the Transaction
\* record fails after the balance was written the operation is aborted, the
\* wallet row going back to the balance it had before the operation wrote it.
C11_AllOrNothing ==
  [][\A p \in Workers :
       (pc'[p] = "l_done" /\ pc[p] # "l_done" /\ loc'[p].result = "error") =>
         /\ balance' = loc'[p].row
         /\ \A i \in 1..Len(txs') : txs'[i].order # loc'[p].oid]_vars

\* C12: the provider's CreateOrder is never issued by a request that holds the
\* lock of the wallet row: the charge is committed before the call.
C12_NoProviderCallUnderLock ==
  \A p \in Workers : pc[p] = "po_provider" => walletLock # p

\* positions inside a ledger operation
InLedgerOp == {"l_create_tx", "cd_lock_wallet", "cd_lock_tx", "cd_apply", "fail_deposit"}

\* C13: confirm_deposit takes the wallet row's lock before the transaction
\* row's, and no set of concurrent ledger operations deadlocks: every operation
\* that has begun completes.
C13_LockOrderNoDeadlock ==
  /\ [](\A r \in Refs : txLock[r] # NoOne => walletLock = txLock[r])
  /\ \A p \in Workers : (pc[p] \in InLedgerOp) ~> (pc[p] \in {"done", "l_done"})

\* C13 witness: a confirm_deposit holds both locks while another one waits for
\* the wallet row.
C13_Witness ==
  \E p, q \in Workers :
    /\ pc[p] = "cd_apply" /\ walletLock = p /\ txLock[loc[p].ref] = p
    /\ pc[q] = "cd_lock_wallet"

\* C14: an Order row is committed together with its CHARGE transaction: in every
\* committed state the row of an order exists exactly when a CHARGE transaction of
\* that order exists, the row's charge is the amount charged, and no later
\* operation changes the row's charge.
C14_OrderWithCharge ==
  /\ [](\A oid \in 1..nextOid :
         /\ oid \in DOMAIN orders <=> TxsFor(txs, oid, "charge") # {}
         /\ \A i \in TxsFor(txs, oid, "charge") :
              orders[oid].charge = 0 - txs[i].amount)
  /\ [][\A oid \in DOMAIN orders : orders'[oid].charge = orders[oid].charge]_vars

\* C14 witness: an order that was placed and later canceled by the admin still
\* carries the charge recorded by its CHARGE transaction.
C14_Witness ==
  \E oid \in DOMAIN orders :
    /\ orders[oid].status = "canceled"
    /\ \E i \in TxsFor(txs, oid, "charge") : orders[oid].charge = 0 - txs[i].amount
    /\ TxsFor(txs, oid, "refund") # {}

\* the statuses the specification calls terminal
TerminalStatuses == {"completed", "canceled", "refunded", "failed"}

\* C15: no operation moves an order that is COMPLETED, CANCELED, REFUNDED or
\* FAILED to a different status, except CANCELED to REFUNDED.
C15_TerminalStatusesStay ==
  [][\A oid \in DOMAIN orders :
       orders[oid].status \in TerminalStatuses =>
         \/ orders'[oid].status = orders[oid].status
         \/ orders[oid].status = "canceled" /\ orders'[oid].status = "refunded"]_vars

\* C16: the admin's cancel-and-refund of an order it reads as COMPLETED, CANCELED
\* or REFUNDED changes nothing; of any other order it credits the wallet object
\* with exactly order.charge, records exactly one REFUND transaction of that
\* amount for the order, and sets the order CANCELED.
C16_CancelAndRefund ==
  [][\A p \in Workers :
       LET l == loc[p]
       IN /\ (pc[p] = "idle" /\ pc'[p] = "cr_check") =>
               UNCHANGED <<balance, txs, orders>>
          /\ (pc[p] = "cr_check" /\ pc'[p] # "cr_check") =>
               /\ UNCHANGED <<balance, txs, orders>>
               /\ IF l.ord.status \in {"completed", "canceled", "refunded"}
                  THEN pc'[p] = "done" /\ loc'[p].result = "skipped"
                  ELSE pc'[p] = "cr_refund"
          /\ (pc[p] = "cr_refund" /\ pc'[p] # "cr_refund") =>
               /\ balance' = loc'[p].bal
               /\ loc'[p].bal = l.bal + l.ord.charge
               /\ UNCHANGED <<txs, orders>>
               /\ pc'[p] = "cr_tx"
          /\ (pc[p] = "cr_tx" /\ pc'[p] # "cr_tx") =>
               /\ Len(txs') = Len(txs) + 1
               /\ SubSeq(txs', 1, Len(txs)) = txs
               /\ LET t == txs'[Len(txs')]
                  IN /\ t.type = "refund" /\ t.status = SUCCESS
                     /\ t.amount = l.ord.charge /\ t.order = l.oid
                     /\ t.balance_after = l.bal
               /\ UNCHANGED <<balance, orders>>
               /\ pc'[p] = "cr_save"
          /\ (pc[p] = "cr_save" /\ pc'[p] # "cr_save") =>
               /\ orders'[l.oid].status = "canceled"
               /\ orders'[l.oid].charge = l.ord.charge
               /\ \A o \in DOMAIN orders \ {l.oid} : orders'[o] = orders[o]
               /\ UNCHANGED <<balance, txs>>
               /\ pc'[p] = "done" /\ loc'[p].result = "refunded"]_vars

\* C16 witness: one cancel-and-refund has refunded and canceled an order, and a
\* second one, of the order now CANCELED, was skipped.
C16_Witness ==
  \E p, q \in Workers :
    /\ pc[p] = "done" /\ loc[p].kind = "cancel" /\ loc[p].result = "refunded"
    /\ pc[q] = "done" /\ loc[q].kind = "cancel" /\ loc[q].result = "skipped"
    /\ \E oid \in DOMAIN orders :
         /\ orders[oid].status = "canceled"
         /\ Cardinality(TxsFor(txs, oid, "refund")) = 1

\* a call of the gateway that has ended
Called(p) == pc[p] = "done" /\ loc[p].kind = "request"

\* C17: Request raises ProviderError only when all 3 attempts failed in
\* transport or the response carries a business error and no success signal;
\* when an earlier attempt failed in transport and a later one got a response
\* without an error, Request returns that response.
C17_RaisesOnlyOnFailure ==
  \A p \in Workers :
    Called(p) =>
      LET seen == loc[p].seen
          r == loc[p].result
          last == seen[Len(seen)]
      IN /\ r.raised =>
              \/ /\ Len(seen) = max_retries
                 /\ \A i \in 1..Len(seen) : seen[i] \in TransportFailures
              \/ HasErrorKey(r.body) /\ ~HasOrderKey(r.body)
         /\ (last \in HttpResponses /\ ~HasErrorKey(last)) =>
              ~r.raised /\ r.body = last

\* C18: a call makes at most 3 attempts; an attempt is made again only after a
\* transport failure, so the loop stops at the first HTTP response and never
\* retries a structured business error; and every call ends.
C18_BoundedRetry ==
  /\ [](\A p \in Workers :
         loc[p].kind = "request" =>
           /\ Len(loc[p].seen) <= max_retries
           /\ \A i \in 1..(Len(loc[p].seen) - 1) : loc[p].seen[i] \in TransportFailures
           /\ (pc[p] = "rq_attempt" /\ loc[p].seen # <<>>) =>
                loc[p].seen[Len(loc[p].seen)] \in TransportFailures)
  /\ \A p \in Workers : (pc[p] = "rq_attempt") ~> Called(p)

\* C18 witness: a call that ended at its third attempt, which got a structured
\* business error after two transport failures.
C18_Witness ==
  \E p \in Workers :
    /\ Called(p)
    /\ loc[p].result.attempts = max_retries
    /\ loc[p].seen[1] \in TransportFailures /\ loc[p].seen[2] \in TransportFailures
    /\ HasErrorKey(loc[p].seen[3])

\* C19: every call of the gateway produces exactly one audit log record, and the
\* record never contains the API key in plaintext.
C19_OneRedactedLogRecord ==
  \A p \in Workers :
    Called(p) =>
      /\ Len(loc[p].log) = 1
      /\ \A i \in 1..Len(loc[p].log) :
           \A k \in DOMAIN loc[p].log[i].request_data :
             loc[p].log[i].request_data[k] # ApiKey

\* C20: a failure of the status query or of the update of one order in a
\* reconciliation batch adds one to the error count and nothing else: the batch
\* goes on with the next selected order, and every order that does not fail is
\* processed from the status the provider reports, as in a batch without
\* failures; the batch ends only when every selected order had its turn.
C20_SyncIsolatesFailures ==
  /\ [](\A p \in Workers :
         pc[p] = "rc_loop" =>
           loc[p].errors = Cardinality({ i \in 1..Len(loc[p].outs) : loc[p].outs[i].failed }))
  /\ [][\A p \in Workers :
         LET l == loc[p]
             i == Len(l.outs) + 1
         IN /\ (pc[p] = "rc_loop" /\ pc'[p] = "rc_loop" /\ loc'[p] # l) =>
                 /\ loc'[p].sel = l.sel
                 /\ Len(loc'[p].outs) = i
                 /\ SubSeq(loc'[p].outs, 1, i - 1) = l.outs
                 /\ loc'[p].outs[i].oid = l.sel[i].oid
                 /\ IF loc'[p].outs[i].failed
                    THEN /\ loc'[p].errors = l.errors + 1
                         /\ loc'[p].updated = l.updated
                         /\ orders' = orders
                    ELSE /\ loc'[p].errors = l.errors
                         /\ \E got \in StatusOutcomes \ {"raise"} :
                              LET new_status == SyncNewStatus(l.sel[i].row, got)
                              IN IF new_status # "none"
                                 THEN /\ orders'[l.sel[i].oid].status = new_status
                                      /\ orders'[l.sel[i].oid].charge = l.sel[i].row.charge
                                      /\ \A o \in DOMAIN orders \ {l.sel[i].oid} :
                                           orders'[o] = orders[o]
                                      /\ loc'[p].updated = l.updated + 1
                                 ELSE /\ orders' = orders
                                      /\ loc'[p].updated = l.updated
            /\ (pc[p] = "rc_loop" /\ pc'[p] = "done") =>
                 /\ Len(l.outs) = Len(l.sel)
                 /\ loc'[p].errors = l.errors /\ loc'[p].updated = l.updated
                 /\ orders' = orders]_vars

\* C20 witness: a batch of two orders in which the first failed and the second
\* was updated all the same.
C20_Witness ==
  \E p \in Workers :
    /\ pc[p] = "rc_loop"
    /\ Len(loc[p].sel) = 2 /\ Len(loc[p].outs) = 2
    /\ loc[p].outs[1].failed /\ ~loc[p].outs[2].failed
    /\ loc[p].errors = 1 /\ loc[p].updated = 1
    /\ orders[loc[p].sel[2].oid].status # loc[p].sel[2].row.status

\* the internal status the table gives for an upstream string, whatever its
\* case; "none" for a string outside the table
TableStatus(got) ==
  CASE got = "Completed" -> "completed"
    [] got = "in progress" -> "in_progress"
    [] got = "Canceled" -> "canceled"
    [] got = "failed" -> "failed"
    [] OTHER -> "none"

C22_CompletedIsStamped ==
  \A oid \in DOMAIN orders :
    orders[oid].status = "completed" => orders[oid].completed_at

\* C23: no call of GetServices ends in a hard failure passed to its caller:
\* whatever the provider does, the call returns a catalog.
C23_GetServicesNeverRaises ==
  \A p \in Workers :
    (pc[p] = "done" /\ loc[p].kind = "services") => loc[p].result # "raised"

\* C24: when the gateway reports to Verify a successful payment whose amount
\* differs from the pending transaction's by more than the tolerance of 1, Verify
\* credits nothing and leaves the transaction as it is, PENDING.
C24_MismatchNotCredited ==
  [][\A p \in Workers :
       LET diff == loc[p].txAmount - loc'[p].amount
       IN (/\ pc[p] = "vf_gateway" /\ pc'[p] # "vf_gateway"
           /\ loc'[p].amount # 0
           /\ (diff > 1 \/ 0 - diff > 1)) =>
            /\ pc'[p] = "done" /\ loc'[p].result = "mismatch"
            /\ UNCHANGED <<balance, txs, credited>>]_vars

\* C24 witness: a Verify ended on a mismatch, the customer having paid; the
\* transaction is PENDING and the balance is the initial one.
C24_Witness ==
  \E p \in Workers :
    /\ pc[p] = "done" /\ loc[p].kind = "verify" /\ loc[p].result = "mismatch"
    /\ gw[loc[p].ref] = "paid"
    /\ TxOf(loc[p].ref).status = PENDING
    /\ loc[p].amount - TxOf(loc[p].ref).amount > AmountTolerance
    /\ balance = InitBalance

\* C25: a Verify whose call of the gateway fails leaves the transaction and the
\* balance as they are, and a webhook that afterwards finds the transaction
\* PENDING confirms it: SUCCESS, the wallet credited with its amount.
C25_GatewayErrorLeavesPending ==
  [][\A p \in Workers :
       /\ (/\ pc'[p] # pc[p]
           /\ loc'[p].kind = "verify" /\ loc'[p].result = "502") =>
            UNCHANGED <<balance, txs, credited>>
       /\ (/\ pc[p] = "done" /\ loc[p].kind = "verify" /\ loc[p].result = "502"
           /\ pc'[p] = "done") =>
            \A q \in Workers :
              (/\ pc[q] = "cd_apply" /\ pc'[q] = "done"
               /\ loc[q].kind = "webhook" /\ loc[q].ref = loc[p].ref
               /\ loc[q].txStatus = PENDING) =>
                /\ TxOf(loc[q].ref)'.status = SUCCESS
                /\ balance' = loc[q].bal + loc[q].txAmount
                /\ credited'[loc[q].ref] = credited[loc[q].ref] + 1]_vars

\* C25 witness: a Verify ended on a gateway error, and a webhook then confirmed
\* the same transaction.
C25_Witness ==
  \E p, q \in Workers :
    /\ pc[p] = "done" /\ loc[p].kind = "verify" /\ loc[p].result = "502"
    /\ pc[q] = "done" /\ loc[q].kind = "webhook" /\ loc[q].ref = loc[p].ref
    /\ TxOf(loc[p].ref).status = SUCCESS
    /\ credited[loc[p].ref] = 1
    /\ balance = InitBalance + TxOf(loc[p].ref).amount

C27_VerifySettledIsReadOnly ==
  [][\A p \in Workers :
       (/\ pc[p] = "idle" /\ pc'[p] # "idle" /\ loc'[p].kind = "verify"
        /\ FoundFor(loc'[p].ref, loc'[p].wallet)
        /\ TxOf(loc'[p].ref).status \in {SUCCESS, FAILED}) =>
         /\ pc'[p] = "done"
         /\ loc'[p].result = IF TxOf(loc'[p].ref).status = SUCCESS
                              THEN "already_success" ELSE "already_failed"
         /\ UNCHANGED <<balance, txs, credited, gw>>]_vars

\* C27 witness: a Verify has answered "failed" for a transaction it found
\* FAILED, which still is FAILED.
C27_Witness ==
  \E p \in Workers :
    /\ pc[p] = "done" /\ loc[p].kind = "verify"
    /\ loc[p].result = "already_failed"
    /\ TxOf(loc[p].ref).status = FAILED

\* C28: create_pending_deposit adds exactly one transaction, a PENDING deposit of
\* the given amount and reference, and leaves the wallet balance as it was; at
\* no time do two transactions hold the same non-null payment_reference.
C28_OnePendingUniqueReference ==
  /\ [][\A p \in Workers :
         (/\ pc[p] = "l_loaded" /\ pc'[p] = "l_done"
          /\ loc'[p].kind = "pending" /\ loc'[p].result = "applied") =>
           /\ Len(txs') = Len(txs) + 1
           /\ SubSeq(txs', 1, Len(txs)) = txs
           /\ txs'[Len(txs')].status = PENDING
           /\ txs'[Len(txs')].type = "deposit"
           /\ txs'[Len(txs')].amount = loc'[p].amount
           /\ txs'[Len(txs')].ref = loc'[p].ref
           /\ balance' = balance]_vars
  /\ [](\A i, j \in DOMAIN txs :
         (i # j /\ txs[i].ref # 0) => txs[i].ref # txs[j].ref)

\* C28 witness: a pending deposit was created and a second creation with the
\* same reference was turned down; the reference is held by one transaction.
C28_Witness ==
  \E p, q \in Workers :
    /\ pc[p] = "l_done" /\ loc[p].kind = "pending" /\ loc[p].result = "applied"
    /\ pc[q] = "l_done" /\ loc[q].kind = "pending" /\ loc[q].result = "error"
    /\ loc[q].ref = loc[p].ref
    /\ Cardinality({i \in DOMAIN txs : txs[i].ref = loc[p].ref}) = 1
    /\ balance = InitBalance

\* C29: when an active service-level rule matches the service of the call and
\* has fixed_addition > 0, the rate returned is the provider rate plus the fixed
\* addition of such a rule, whatever other rules are active and whatever the
\* priorities.
C29_ServiceFixedWins ==
  quote.called =>
    LET fixers == {r \in Matching : r.level = "service" /\ r.fixed_addition > 0}
    IN fixers # {} =>
         \E r \in fixers : quote.result = quote.provider_rate + r.fixed_addition

\* C29 witness: provider rate 10.0000 and a service rule adding 2.0000 at the
\* lowest priority gave 12.0000, with a matching global rule and a matching
\* category or platform rule of higher priority and non-zero percentage active.
C29_Witness ==
  /\ quote.called /\ quote.provider_rate = 100000 /\ quote.result = 120000
  /\ \E r, g, c \in Matching :
       /\ r.level = "service" /\ r.fixed_addition = 20000 /\ r.priority = 1
       /\ g.level = "global" /\ g.percentage > 0 /\ g.priority = 2
       /\ c.level \in {"category", "platform"} /\ c.percentage > 0
       /\ c.priority = 2

\* C30: the percentage and the fixed addition that are applied come from a
\* matching rule such that no matching rule of a level of higher precedence
\* (service > category > platform > global) has a non-zero value.
C30_StrictPrecedence ==
  (quote.called /\ ~quote.returned) =>
    /\ quote.percentage > 0 =>
         \E r \in Matching :
           /\ r.percentage = quote.percentage
           /\ \A h \in Matching :
                Precedence(h.level) > Precedence(r.level) => h.percentage = 0
    /\ quote.fixed > 0 =>
         \E r \in Matching :
           /\ r.fixed_addition = quote.fixed
           /\ \A h \in Matching :
                Precedence(h.level) > Precedence(r.level) => h.fixed_addition = 0

\* C31: when a sync has run, every Service that was active before it and whose
\* provider_id is not in the batch is inactive, every Service of the batch
\* exists and is active, and no step deletes a Service row.
C31_SyncUnlistsTheAbsent ==
  /\ [](sync.pc = "done" =>
         /\ \A id \in Services :
              (/\ sync.before[id].exists /\ sync.before[id].is_active
               /\ id \notin BatchIds(sync.batch)) =>
                 ~catalog[id].is_active
         /\ \A id \in BatchIds(sync.batch) :
              catalog[id].exists /\ catalog[id].is_active)
  /\ [][\A id \in Services : catalog[id].exists => catalog'[id].exists]_vars

\* C32: the profit of twice a quantity is twice the profit of the quantity,
\* within one unit of the fourth decimal.
C32_ProfitLinear ==
  profit.called =>
    /\ profit.doubled - 2 * profit.result <= 1
    /\ 2 * profit.result - profit.doubled <= 1

\* C32 witness: the rates differ by 0.0001 and the quantity is 500: the profit
\* 0.00005 rounds to 0, the profit of 1000 is 0.0001, one unit above twice 0.
C32_Witness ==
  /\ profit.called /\ profit.quantity = 500
  /\ profit.user_rate - profit.provider_rate = 1
  /\ profit.result = 0 /\ profit.doubled = 1

\* C33: after a crash between the charge and the recording of the provider's
\* outcome, the committed state holds the order, PENDING with an empty
\* provider_order_id, and its charge transaction; and when the provider had
\* accepted the order, the order and its charge are committed.
C33_CrashLeavesOrphanVisible ==
  \A p \in Workers :
    (pc[p] = "crashed" /\ loc[p].sig \in {"po_provider", "po_finish"}) =>
      /\ loc[p].oid \in DOMAIN orders
      /\ orders[loc[p].oid].status = "pending"
      /\ orders[loc[p].oid].provider_order_id = ""
      /\ TxsFor(txs, loc[p].oid, "charge") # {}
      /\ loc[p].result = "placed" =>
           /\ loc[p].oid \in DOMAIN orders
           /\ TxsFor(txs, loc[p].oid, "charge") # {}

\* C34: the user_rate a sync writes for an entry is the rate calculate_user_rate
\* gives for the entry's provider rate, the Service itself, its category and
\* the platform derived from its category name.
C34_SyncedRateIsResolvedRate ==
  [][(/\ sync.pc = "loop" /\ sync'.pc = "loop" /\ sync'.i = sync.i + 1
      /\ sync.batch[sync.i].service # 0) =>
       LET svc == sync.batch[sync.i]
       IN \E rs \in RuleOrders :
            catalog'[svc.service].user_rate =
              calculate_user_rate(rs, svc.rate, svc.service, svc.category,
                                  "").result]_vars

\* C35: for every active order placed with the provider and every upstream
\* status string, sync_active_orders, the order-detail refresh and the admin
\* check-status leave the order in the same status.
C35_RefreshPathsAgree ==
  \A oid \in DOMAIN orders :
    SyncSelects(orders[oid]) =>
      \A got \in UpstreamStatuses :
        LET row == orders[oid]
            bySync == IF SyncNewStatus(row, got) = "none" THEN row.status
                      ELSE SyncNewStatus(row, got)
            byCheck == IF CheckNewStatus(row, got) = "none" THEN row.status
                       ELSE CheckNewStatus(row, got)
        IN bySync = DetailStatus(row, got) /\ bySync = byCheck

RECURSIVE RefundedFor(_, _)
\* the total of the REFUND transactions recorded for an order
RefundedFor(s, oid) ==
  IF s = <<>> THEN 0
  ELSE (IF Head(s).type = "refund" /\ Head(s).order = oid THEN Head(s).amount
        ELSE 0) + RefundedFor(Tail(s), oid)

\* C36: the refunds recorded for an order never add up to more than its charge.
C36_RefundAtMostCharge ==
  \A oid \in DOMAIN orders : RefundedFor(txs, oid) <= orders[oid].charge

\* C37: at the moment an order gets its provider_order_id, its charge is
\* recorded and nothing of it has been refunded.
C37_AcceptedOrdersArePaid ==
  [][\A oid \in DOMAIN orders' :
       (/\ orders'[oid].provider_order_id # ""
        /\ (oid \in DOMAIN orders => orders[oid].provider_order_id = "")) =>
         /\ TxsFor(txs', oid, "charge") # {}
         /\ RefundedFor(txs', oid) = 0]_vars

C39_ReconcileFrame ==
  [][\A p \in Workers :
       (pc[p] = "rc_loop" /\ loc'[p] # loc[p]) =>
         /\ balance' = balance
         /\ txs' = txs
         /\ DOMAIN orders' = DOMAIN orders
         /\ \A oid \in DOMAIN orders :
              orders'[oid] # orders[oid] =>
                /\ orders'[oid].charge = orders[oid].charge
                /\ orders'[oid].provider_order_id = orders[oid].provider_order_id
                /\ orders[oid].provider_order_id # ""
                /\ orders[oid].status \in ActiveStatuses]_vars

\* C40: a step that credits a deposit adds to the balance of the wallet owning
\* the pending transaction exactly the amount recorded in that transaction, which
\* it leaves as recorded, whatever amount the webhook body or the verify response
\* reported to the worker; no step changes another wallet's balance, and the
\* balance of the owning wallet changes only by such a credit.
C40_CreditsRecordedAmountToOwner ==
  [][/\ \A r \in Refs :
          credited'[r] # credited[r] =>
            /\ TxOf(r).status = PENDING
            /\ balance' = balance + TxOf(r).amount
            /\ txs'[TxIndex(r)].amount = TxOf(r).amount
            /\ txs'[TxIndex(r)].balance_after = balance'
     /\ others' = others
     /\ balance' # balance => \E r \in Refs : credited'[r] # credited[r]]_vars

\* C40 witness: a webhook whose body reported 9.99 for a top-up of 100 has
\* confirmed it, and the other user's Verify of the same reference found no
\* transaction; the owning wallet holds the recorded 100 more than at the start
\* and the other wallet what it held.
C40_Witness ==
  \E p, q \in Workers :
    /\ pc[p] = "done" /\ loc[p].kind = "webhook" /\ loc[p].result = "ok"
    /\ loc[p].ref \in Refs /\ credited[loc[p].ref] = 1
    /\ loc[p].amount = 999 /\ TxOf(loc[p].ref).amount = 100
    /\ TxOf(loc[p].ref).status = SUCCESS
    /\ pc[q] = "done" /\ loc[q].kind = "verify" /\ loc[q].result = "404"
    /\ loc[q].ref = loc[p].ref /\ loc[q].wallet # TxOwner
    /\ balance = InitBalance + 100
    /\ others = OtherBalance

====
